---------------------------- MODULE Spec2Model ----------------------------
(***************************************************************************)
(* Model of the Databricks Insight Agent core: schema-constrained SQL      *)
(* generation (sql_generator.py), input and SQL validation and the rate    *)
(* limiter (security.py), the error classification / correction / retry    *)
(* loop (src/intelligence/sql_error_correction.py) and the orchestrator    *)
(* (src/core/agent.py).                                                    *)
(*                                                                         *)
(* Text is modelled as finite sequences.  An identifier is a sequence of   *)
(* one-character strings; an SQL text is a sequence of tokens (keyword,    *)
(* identifier, quoted literal, raw text, number, symbol), the text being   *)
(* the tokens written out in order.  None is the empty sequence.           *)
(***************************************************************************)
EXTENDS Integers, Sequences, FiniteSets, TLC

VARIABLES
    tables,      \* SchemaManager.tables: table name -> ordered column list
    intent,      \* the keyword arguments of one generate_sql call
    gen_sql,     \* what generate_sql returned (NoSQL models None)
    gen_pc,      \* "call" before generate_sql ran, "returned" after
    max_query_length, \* SecurityConfig.max_query_length
    val_call,    \* which validator method is called
    user_query,  \* the text given to validate_query
    sql_text,    \* the text given to validate_sql
    val_result,  \* the (is_valid, error_message) pair returned
    val_pc,      \* "call" before the method ran, "returned" after
    max_calls,   \* RateLimiter.max_calls
    calls,       \* RateLimiter.calls: list of (user_id, timestamp)
    clock,       \* time.time()
    rl_last,     \* the last check_rate_limit call and what it returned
    rl_admitted, \* history: every event admitted so far, in order
    rl_checks,   \* number of check_rate_limit calls made so far
    calls_b,     \* RateLimiter.calls of a second limiter (second run)
    rl_last_b,   \* the last call of the second run and what it returned
    th_pc,       \* per thread: its position inside check_rate_limit
    th_now,      \* per thread: its local current_time
    th_pruned,   \* per thread: the list its comprehension has built
    th_count,    \* per thread: its local user_calls
    rx_max_retries, \* execute_with_retry: the max_retries argument
    rx_sql_query, \* execute_with_retry: the sql_query argument
    rx_query,    \* execute_with_retry: current_query
    rx_attempt,  \* execute_with_retry: the loop variable attempt
    rx_log,      \* execute_with_retry: correction_log
    rx_calls,    \* history: number of databricks_client.execute_query calls
    rx_sent,     \* history: the text of the last execute_query call
    rx_result,   \* what execute_with_retry returned (None while it runs)
    rx_pc,       \* "loop" at the head of the for loop, "done" after return
    ag_cfg,      \* DatabricksInsightAgent: which optional collaborators are set
    ag_query,    \* process_query: the user_query argument
    ag_pc,       \* process_query: the step it is at
    ag_analysis, \* process_query: query_analysis
    ag_context,  \* process_query: context
    ag_sql,      \* process_query: sql_query
    ag_results,  \* process_query: results
    ag_response, \* the AgentResponse returned (None while it runs)
    ag_calls,    \* history: number of calls made to each collaborator
    cq_sql_query,      \* correct_query: the sql_query argument
    cq_error_message,  \* correct_query: the error_message argument
    cq_error_type,     \* correct_query: sql_error.error_type ("" before the analysis)
    cq_correction,     \* what correct_query returned (None: no correction)
    cq_pc,             \* "call" before correct_query ran, "done" after
    san_input,         \* sanitize_input: the user_input argument (characters)
    san_output,        \* what sanitize_input returned
    san_again,         \* what sanitize_input returned for its own output
    san_pc,            \* "call", "returned", "again" after the second call
    pq_user_query,     \* parse_query_intent: the user_query argument (pieces)
    pq_intent,         \* parse_query_intent: the intent returned
    pq_pc              \* "call" before parse_query_intent ran, "returned" after

genVars == <<intent, gen_sql, gen_pc>>
valVars == <<max_query_length, val_call, user_query, sql_text, val_result, val_pc>>

rateVars == <<max_calls, calls, clock, rl_last, rl_admitted, rl_checks>>
isoVars == <<calls_b, rl_last_b>>
threadVars == <<th_pc, th_now, th_pruned, th_count>>
agentVars == <<ag_cfg, ag_query, ag_pc, ag_analysis, ag_context, ag_sql, ag_results,
               ag_response, ag_calls>>
retryVars == <<rx_max_retries, rx_sql_query, rx_query, rx_attempt, rx_log, rx_calls, rx_sent, rx_result, rx_pc>>
correctVars == <<cq_sql_query, cq_error_message, cq_error_type, cq_correction, cq_pc>>
sanitizeVars == <<san_input, san_output, san_again, san_pc>>
parseVars == <<pq_user_query, pq_intent, pq_pc>>

vars == <<tables, genVars, valVars, rateVars, isoVars, threadVars, retryVars, agentVars, correctVars, sanitizeVars, parseVars>>

----------------------------------------------------------------------------
(* Generic helpers                                                         *)

Range(f) == {f[i] : i \in DOMAIN f}

None == <<>>

\* A duplicate-free pair list models an (insertion ordered) Python dict.
Keys(d) == {d[i][1] : i \in DOMAIN d}

----------------------------------------------------------------------------
(* SQL text as tokens                                                      *)

Kw(w) == [k |-> "kw", w |-> w, s |-> <<>>, n |-> 0]
Sym(w) == [k |-> "sym", w |-> w, s |-> <<>>, n |-> 0]
Id(s) == [k |-> "id", w |-> "", s |-> s, n |-> 0]
\* 'body': the characters written between two single quotes
Lit(s) == [k |-> "lit", w |-> "", s |-> s, n |-> 0]
\* characters written as they are, without quotes
Raw(s) == [k |-> "raw", w |-> "", s |-> s, n |-> 0]
Num(n) == [k |-> "num", w |-> "", s |-> <<>>, n |-> n]

NoSQL == <<>>

\* Characters an identifier may consist of (\w without the digits).
WordChars == {"a", "b", "c", "_", "s", "u", "m", "x"}

IsWord(s) == Len(s) > 0 /\ \A i \in 1..Len(s) : s[i] \in WordChars

RECURSIVE JoinTokens(_, _)
\* ', '.join(parts): the parts (token sequences) separated by sep
JoinTokens(parts, sep) ==
    IF Len(parts) = 0 THEN <<>>
    ELSE IF Len(parts) = 1 THEN parts[1]
    ELSE parts[1] \o <<sep>> \o JoinTokens(Tail(parts), sep)


----------------------------------------------------------------------------
(* SchemaManager (sql_generator.py)                                        *)

get_table_columns(tbls, table_name) ==
    IF table_name \in DOMAIN tbls THEN tbls[table_name] ELSE None

column_exists(tbls, table_name, column_name) ==
    /\ table_name \in DOMAIN tbls
    /\ column_name \in Range(tbls[table_name])

----------------------------------------------------------------------------
(* SQLGenerator.generate_sql (sql_generator.py)                            *)

\* Filter values: a string, an integer, a list of scalars, None, or a value
\* of another type (a dict, say), for which the code emits no condition.
VStr(s) == [k |-> "str", s |-> s, n |-> 0, items |-> <<>>]
VNum(n) == [k |-> "num", s |-> <<>>, n |-> n, items |-> <<>>]
VNull == [k |-> "null", s |-> <<>>, n |-> 0, items |-> <<>>]
VOther == [k |-> "other", s |-> <<>>, n |-> 0, items |-> <<>>]
VList(items) == [k |-> "list", s |-> <<>>, n |-> 0, items |-> items]

\* str.upper() on the aggregation and direction words of the model
Upper(w) ==
    CASE w = "sum" -> "SUM"
      [] w = "count" -> "COUNT"
      [] w = "asc" -> "ASC"
      [] w = "desc" -> "DESC"
      [] w = "up" -> "UP"
      [] OTHER -> w

\* str.lower() of an aggregation word, as characters (for the column alias)
LowerChars(w) ==
    CASE Upper(w) = "SUM" -> <<"s", "u", "m">>
      [] Upper(w) = "MAX" -> <<"m", "a", "x">>
      [] OTHER -> <<"x">>

valid_agg_funcs == {"COUNT", "SUM", "AVG", "MIN", "MAX"}

RECURSIVE EscapeQuotes(_)
\* value.replace("'", "''")
EscapeQuotes(s) ==
    IF Len(s) = 0 THEN <<>>
    ELSE (IF Head(s) = "'" THEN <<"'", "'">> ELSE <<Head(s)>>)
         \o EscapeQuotes(Tail(s))

\* str(v) of a list element, written into the text without quotes
StrOf(v) == IF v.k = "num" THEN Num(v.n) ELSE Raw(v.s)

\* One entry of where_parts; <<>> when the value's type matches no branch.
WherePart(col, value) ==
    CASE value.k = "str" -> <<Id(col), Sym("="), Lit(EscapeQuotes(value.s))>>
      [] value.k = "num" -> <<Id(col), Sym("="), Num(value.n)>>
      [] value.k = "list" ->
            <<Id(col), Kw("IN"), Sym("(")>>
            \o (IF \A i \in DOMAIN value.items : value.items[i].k = "str"
                THEN JoinTokens([i \in DOMAIN value.items |->
                                   <<Lit(EscapeQuotes(value.items[i].s))>>], Sym(","))
                ELSE JoinTokens([i \in DOMAIN value.items |->
                                   <<StrOf(value.items[i])>>], Sym(",")))
            \o <<Sym(")")>>
      [] value.k = "null" -> <<Id(col), Kw("IS"), Kw("NULL")>>
      [] OTHER -> <<>>

WhereParts(filters) ==
    SelectSeq([i \in DOMAIN filters |-> WherePart(filters[i][1], filters[i][2])],
              LAMBDA p : p # <<>>)

AggPart(col, agg_func) ==
    <<Kw(Upper(agg_func)), Sym("("), Id(col), Sym(")"), Kw("as"),
      Id(col \o <<"_">> \o LowerChars(agg_func))>>

LimitTruthy(limit) == limit # None /\ limit[1] # 0

\* A generator that writes ORDER BY before GROUP BY
generate_sql_order_before_group(tbls, it) ==
    LET t == it.table_name
        bad(cols) == \E c \in cols : ~column_exists(tbls, t, c)
        select_cols == IF it.columns # <<>> THEN it.columns ELSE tbls[t]
        select_parts ==
            IF it.aggregations # <<>>
            THEN [i \in DOMAIN it.aggregations |->
                    AggPart(it.aggregations[i][1], it.aggregations[i][2])]
            ELSE [i \in DOMAIN select_cols |-> <<Id(select_cols[i])>>]
        where_parts == WhereParts(it.filters)
        order_parts == [i \in DOMAIN it.order_by |->
                          <<Id(it.order_by[i][1]), Kw(Upper(it.order_by[i][2]))>>]
    IN  IF t \notin DOMAIN tbls THEN NoSQL
        ELSE IF bad(Range(it.columns)) THEN NoSQL
        ELSE IF \E i \in DOMAIN it.aggregations :
                   \/ ~column_exists(tbls, t, it.aggregations[i][1])
                   \/ Upper(it.aggregations[i][2]) \notin valid_agg_funcs
             THEN NoSQL
        ELSE IF bad(Keys(it.filters)) THEN NoSQL
        ELSE IF bad(Range(it.group_by)) THEN NoSQL
        ELSE IF \E i \in DOMAIN it.order_by :
                   \/ ~column_exists(tbls, t, it.order_by[i][1])
                   \/ Upper(it.order_by[i][2]) \notin {"ASC", "DESC"}
             THEN NoSQL
        ELSE IF LimitTruthy(it.limit) /\ it.limit[1] <= 0 THEN NoSQL
        ELSE <<Kw("SELECT")>> \o JoinTokens(select_parts, Sym(","))
             \o <<Kw("FROM"), Id(t)>>
             \o (IF where_parts # <<>>
                 THEN <<Kw("WHERE")>> \o JoinTokens(where_parts, Kw("AND"))
                 ELSE <<>>)
             \o (IF order_parts # <<>>
                 THEN <<Kw("ORDER BY")>> \o JoinTokens(order_parts, Sym(","))
                 ELSE <<>>)
             \o (IF it.group_by # <<>>
                 THEN <<Kw("GROUP BY")>>
                      \o JoinTokens([i \in DOMAIN it.group_by |-> <<Id(it.group_by[i])>>],
                                    Sym(","))
                 ELSE <<>>)
             \o (IF LimitTruthy(it.limit) THEN <<Kw("LIMIT"), Num(it.limit[1])>> ELSE <<>>)

\* SQLGenerator.generate_sql
generate_sql(tbls, it) ==
    LET t == it.table_name
        bad(cols) == \E c \in cols : ~column_exists(tbls, t, c)
        select_cols == IF it.columns # <<>> THEN it.columns ELSE tbls[t]
        select_parts ==
            IF it.aggregations # <<>>
            THEN [i \in DOMAIN it.aggregations |->
                    AggPart(it.aggregations[i][1], it.aggregations[i][2])]
            ELSE [i \in DOMAIN select_cols |-> <<Id(select_cols[i])>>]
        where_parts == WhereParts(it.filters)
        order_parts == [i \in DOMAIN it.order_by |->
                          <<Id(it.order_by[i][1]), Kw(Upper(it.order_by[i][2]))>>]
    IN  IF t \notin DOMAIN tbls THEN NoSQL
        ELSE IF bad(Range(it.columns)) THEN NoSQL
        ELSE IF \E i \in DOMAIN it.aggregations :
                   \/ ~column_exists(tbls, t, it.aggregations[i][1])
                   \/ Upper(it.aggregations[i][2]) \notin valid_agg_funcs
             THEN NoSQL
        ELSE IF bad(Keys(it.filters)) THEN NoSQL
        ELSE IF bad(Range(it.group_by)) THEN NoSQL
        ELSE IF \E i \in DOMAIN it.order_by :
                   \/ ~column_exists(tbls, t, it.order_by[i][1])
                   \/ Upper(it.order_by[i][2]) \notin {"ASC", "DESC"}
             THEN NoSQL
        ELSE IF LimitTruthy(it.limit) /\ it.limit[1] <= 0 THEN NoSQL
        ELSE <<Kw("SELECT")>> \o JoinTokens(select_parts, Sym(","))
             \o <<Kw("FROM"), Id(t)>>
             \o (IF where_parts # <<>>
                 THEN <<Kw("WHERE")>> \o JoinTokens(where_parts, Kw("AND"))
                 ELSE <<>>)
             \o (IF it.group_by # <<>>
                 THEN <<Kw("GROUP BY")>>
                      \o JoinTokens([i \in DOMAIN it.group_by |-> <<Id(it.group_by[i])>>],
                                    Sym(","))
                 ELSE <<>>)
             \o (IF order_parts # <<>>
                 THEN <<Kw("ORDER BY")>> \o JoinTokens(order_parts, Sym(","))
                 ELSE <<>>)
             \o (IF LimitTruthy(it.limit) THEN <<Kw("LIMIT"), Num(it.limit[1])>> ELSE <<>>)

----------------------------------------------------------------------------
(* Reading an SQL text back: what it references                            *)

\* The identifier tokens of a text: identifiers proper and raw text that
\* consists of word characters only (an SQL lexer reads it as a name).
IsNameToken(tok) == tok.k = "id" \/ (tok.k = "raw" /\ IsWord(tok.s))

\* The table of the text: the name after FROM (None if there is none).
FromTable(sql) ==
    IF \E i \in 1..(Len(sql) - 1) : sql[i] = Kw("FROM") /\ IsNameToken(sql[i + 1])
    THEN <<sql[(CHOOSE i \in 1..(Len(sql) - 1) :
                  sql[i] = Kw("FROM") /\ IsNameToken(sql[i + 1])) + 1].s>>
    ELSE None

\* The column references of a text: every name that is neither the table
\* after FROM nor an alias introduced by "as".
ReferencedColumns(sql) ==
    {sql[i].s : i \in {j \in 1..Len(sql) :
                         /\ IsNameToken(sql[j])
                         /\ (j > 1 => sql[j - 1] \notin {Kw("FROM"), Kw("as")})}}

----------------------------------------------------------------------------
(* Inputs of the generator                                                 *)

colA == <<"a">>
colB == <<"a", "b">>
colC == <<"c">>
tabS == <<"s">>
tabU == <<"u">>

\* The catalogs: tabS with one or two columns or absent, tabU present or not.
Catalogs ==
    {[t \in dom |-> IF t = tabS THEN colsS ELSE <<colC>>] :
        dom \in SUBSET {tabS, tabU}, colsS \in {<<colA>>, <<colA, colB>>}}

MaxLimit == 2

GenColumns == {<<>>, <<colA>>, <<colC>>, <<colA, colB>>}
GenValues ==
    {VStr(<<"c">>), VStr(<<"c", "'">>), VNum(1), VNull, VOther,
     VList(<<VStr(<<"'">>), VStr(<<"c">>)>>), VList(<<VNum(1), VStr(<<"c">>)>>)}
GenFilters ==
    {<<>>} \cup {<<<<c, v>>>> : c \in {colA, colC}, v \in GenValues}
           \cup {<<<<colA, VNum(1)>>, <<colB, VNull>>>>}
GenAggregations ==
    {<<>>} \cup {<<<<c, f>>>> : c \in {colA, colC}, f \in {"sum", "MEDIAN"}}
           \cup {<<<<colA, "SUM">>, <<colB, "MAX">>>>}
GenGroupBy == {<<>>, <<colA>>, <<colC>>}
GenOrderBy == {<<>>} \cup {<<<<c, d>>>> : c \in {colA, colC}, d \in {"desc", "up"}}
GenLimits == {None} \cup {<<n>> : n \in (-1)..MaxLimit}

Intents ==
    [table_name : {tabS, tabU}, columns : GenColumns, filters : GenFilters,
     aggregations : GenAggregations, group_by : GenGroupBy, order_by : GenOrderBy,
     limit : GenLimits]

NoIntent ==
    [table_name |-> tabS, columns |-> <<>>, filters |-> <<>>, aggregations |-> <<>>,
     group_by |-> <<>>, order_by |-> <<>>, limit |-> None]

----------------------------------------------------------------------------
(* User text: a sequence of pieces, the text being their concatenation.    *)
(* A piece is a fixed string; PieceLen is its number of characters.        *)

PieceLen(p) ==
    CASE p \in {"a", " ", ";", "'", "s", "u"} -> 1
      [] p \in {"--"} -> 2
      [] p \in {"sp_", "get", "top"} -> 3
      [] p \in {"DROP", "EXEC", "show"} -> 4
      [] p \in {"/*a*/", "count", "total"} -> 5
      [] p \in {"delete", "OR 1=1", "' OR '"} -> 6
      [] p \in {"EXECUTE", "explain", "limit 2"} -> 7
      [] p \in {"UNION SELECT"} -> 12

RECURSIVE TextLen(_)
\* len(text)
TextLen(q) == IF Len(q) = 0 THEN 0 ELSE PieceLen(Head(q)) + TextLen(Tail(q))

IsSpace(p) == p = " "

\* Whether the piece begins / ends with a word character (\w)
WordStart(p) == p \notin {" ", ";", "'", "--", "/*a*/", "' OR '"}
WordEnd(p) == p \notin {" ", ";", "'", "--", "/*a*/", "' OR '"}

\* str.upper() of a piece
UpperPiece(p) ==
    CASE p = "delete" -> "DELETE"
      [] p = "show" -> "SHOW"
      [] p = "get" -> "GET"
      [] p = "a" -> "A"
      [] OTHER -> p

\* not text.strip(): the text is empty or whitespace only
StripEmpty(q) == \A i \in DOMAIN q : IsSpace(q[i])

\* Only whitespace from position i + 1 to the end (\s*$)
SpacesToEnd(q, i) == \A j \in (i + 1)..Len(q) : IsSpace(q[j])

----------------------------------------------------------------------------
(* SecurityConfig and SecurityValidator.validate_query (security.py)       *)

dangerous_sql_keywords ==
    <<"DROP", "DELETE", "TRUNCATE", "ALTER", "CREATE",
      "INSERT", "UPDATE", "GRANT", "REVOKE", "EXEC", "EXECUTE">>

\* The patterns, by their place in SecurityConfig.sql_injection_patterns
sql_injection_patterns ==
    <<"semicolon_comment", "semicolon_end", "union_select", "or_1_eq_1",
      "quote_or_quote", "comment_end", "block_comment", "xp_", "sp_">>

\* pattern.search(query), re.IGNORECASE
PatternSearch(pat, q) ==
    CASE pat = "semicolon_comment" ->          \* ;\s*--
            \E i \in DOMAIN q : \E j \in (i + 1)..Len(q) :
                /\ q[i] = ";" /\ q[j] = "--"
                /\ \A m \in (i + 1)..(j - 1) : IsSpace(q[m])
      [] pat = "semicolon_end" ->              \* ;\s*$
            \E i \in DOMAIN q : q[i] = ";" /\ SpacesToEnd(q, i)
      [] pat = "union_select" ->               \* UNION\s+SELECT
            \E i \in DOMAIN q : q[i] = "UNION SELECT"
      [] pat = "or_1_eq_1" ->                  \* OR\s+1\s*=\s*1
            \E i \in DOMAIN q : q[i] = "OR 1=1"
      [] pat = "quote_or_quote" ->             \* '\s*OR\s*'
            \E i \in DOMAIN q : q[i] = "' OR '"
      [] pat = "comment_end" ->                \* --\s*$
            \E i \in DOMAIN q : q[i] = "--" /\ SpacesToEnd(q, i)
      [] pat = "block_comment" ->              \* /\*.*\*/
            \E i \in DOMAIN q : q[i] = "/*a*/"
      [] pat = "xp_" -> FALSE                  \* no piece of the model holds xp_
      [] pat = "sp_" -> \E i \in DOMAIN q : q[i] = "sp_"

\* re.search(rf"\b{keyword}\b", query.upper())
KeywordSearch(keyword, q) ==
    \E i \in DOMAIN q :
        /\ UpperPiece(q[i]) = keyword
        /\ (i > 1 => ~WordEnd(q[i - 1]))
        /\ (i < Len(q) => ~WordStart(q[i + 1]))

Reason(kind, n, kw) == [kind |-> kind, n |-> n, kw |-> kw]
NoReason == Reason("none", 0, "")
Verdict(ok, reason) == [ok |-> ok, reason |-> reason]

\* The first keyword of the configured list that the text holds
FirstKeyword(q) ==
    dangerous_sql_keywords[
        CHOOSE i \in DOMAIN dangerous_sql_keywords :
            /\ KeywordSearch(dangerous_sql_keywords[i], q)
            /\ \A j \in 1..(i - 1) : ~KeywordSearch(dangerous_sql_keywords[j], q)]

\* Mutant: the forbidden keywords are looked for before the patterns.
validate_query_keywords_first(q, max_len) ==
    IF TextLen(q) > max_len
    THEN Verdict(FALSE, Reason("exceeds_maximum_length", max_len, ""))
    ELSE IF StripEmpty(q)
    THEN Verdict(FALSE, Reason("cannot_be_empty", 0, ""))
    ELSE IF \E i \in DOMAIN dangerous_sql_keywords :
                KeywordSearch(dangerous_sql_keywords[i], q)
    THEN Verdict(FALSE, Reason("forbidden_sql_keyword", 0, FirstKeyword(q)))
    ELSE IF \E i \in DOMAIN sql_injection_patterns :
                PatternSearch(sql_injection_patterns[i], q)
    THEN Verdict(FALSE, Reason("dangerous_sql_patterns", 0, ""))
    ELSE Verdict(TRUE, NoReason)

\* Mutant: the length check rejects a text of exactly max_len characters.
validate_query_off_by_one(q, max_len) ==
    IF TextLen(q) >= max_len
    THEN Verdict(FALSE, Reason("exceeds_maximum_length", max_len, ""))
    ELSE IF StripEmpty(q)
    THEN Verdict(FALSE, Reason("cannot_be_empty", 0, ""))
    ELSE IF \E i \in DOMAIN sql_injection_patterns :
                PatternSearch(sql_injection_patterns[i], q)
    THEN Verdict(FALSE, Reason("dangerous_sql_patterns", 0, ""))
    ELSE IF \E i \in DOMAIN dangerous_sql_keywords :
                KeywordSearch(dangerous_sql_keywords[i], q)
    THEN Verdict(FALSE, Reason("forbidden_sql_keyword", 0, FirstKeyword(q)))
    ELSE Verdict(TRUE, NoReason)

validate_query(q, max_len) ==
    IF TextLen(q) > max_len
    THEN Verdict(FALSE, Reason("exceeds_maximum_length", max_len, ""))
    ELSE IF StripEmpty(q)
    THEN Verdict(FALSE, Reason("cannot_be_empty", 0, ""))
    ELSE IF \E i \in DOMAIN sql_injection_patterns :
                PatternSearch(sql_injection_patterns[i], q)
    THEN Verdict(FALSE, Reason("dangerous_sql_patterns", 0, ""))
    ELSE IF \E i \in DOMAIN dangerous_sql_keywords :
                KeywordSearch(dangerous_sql_keywords[i], q)
    THEN Verdict(FALSE, Reason("forbidden_sql_keyword", 0, FirstKeyword(q)))
    ELSE Verdict(TRUE, NoReason)


----------------------------------------------------------------------------
(* SecurityValidator.validate_sql (security.py) over sqlparse              *)

Comment == [k |-> "comment", w |-> "--c", s |-> <<>>, n |-> 0]

RECURSIVE SplitStatements(_, _)
\* sqlparse.parse(sql): the statements of the text.  A statement ends with
\* its semicolon; text after the last semicolon is a statement of its own.
SplitStatements(sql, cur) ==
    IF Len(sql) = 0 THEN (IF cur = <<>> THEN <<>> ELSE <<cur>>)
    ELSE IF Head(sql) = Sym(";")
         THEN <<Append(cur, Head(sql))>> \o SplitStatements(Tail(sql), <<>>)
         ELSE SplitStatements(Tail(sql), Append(cur, Head(sql)))

sqlparse_parse(sql) == SplitStatements(sql, <<>>)

DmlDdlKeywords ==
    {"SELECT", "INSERT", "DELETE", "UPDATE", "UPSERT", "REPLACE", "MERGE",
     "DROP", "CREATE", "ALTER"}

\* Keyword.normalized: the upper-cased keyword
UpperKw(w) == IF w = "select" THEN "SELECT" ELSE w

\* Statement.get_type(): the first token that is not a comment, upper-cased
\* if it is a DML or DDL keyword, else UNKNOWN.
get_type(stmt) ==
    LET rest == SelectSeq(stmt, LAMBDA tok : tok.k # "comment")
    IN  IF rest # <<>> /\ rest[1].k = "kw" /\ UpperKw(rest[1].w) \in DmlDdlKeywords
        THEN UpperKw(rest[1].w)
        ELSE "UNKNOWN"

validate_sql(sql) ==
    LET parsed == sqlparse_parse(sql)
    IN  IF parsed = <<>>
        THEN Verdict(FALSE, Reason("invalid_sql_syntax", 0, ""))
        ELSE IF get_type(parsed[1]) # "SELECT"
        THEN Verdict(FALSE, Reason("only_select_allowed", 0, ""))
        \* an allowed schema named in the text or not: (True, None) either way
        ELSE Verdict(TRUE, NoReason)

----------------------------------------------------------------------------
(* Inputs of the validator                                                 *)

MaxPieces == 3
MaxQueryLen == 8
MaxSqlTokens == 4

SeqsUpTo(S, n) == UNION {[1..m -> S] : m \in 0..n}

ValPieces ==
    {"a", " ", ";", "--", "'", "sp_", "DROP", "EXEC", "EXECUTE", "delete",
     "OR 1=1", "' OR '", "/*a*/", "UNION SELECT"}
ValQueries == SeqsUpTo(ValPieces, MaxPieces)

ValSqlTokens ==
    {Kw("SELECT"), Kw("select"), Kw("INSERT"), Kw("DROP"), Kw("FROM"),
     Id(colA), Sym(";"), Comment}
ValSqlTexts == SeqsUpTo(ValSqlTokens, MaxSqlTokens)

----------------------------------------------------------------------------
(* RateLimiter.check_rate_limit (security.py)                              *)

\* The window of the limiter, in seconds
Window == 60

\* The list comprehension: the events younger than the window
PruneCalls(cs, current_time) ==
    SelectSeq(cs, LAMBDA e : current_time - e[2] < Window)

\* sum(1 for uid, _ in self.calls if uid == user_id)
UserCalls(cs, user_id) == Cardinality({i \in DOMAIN cs : cs[i][1] = user_id})

\* Mutant: the count ignores whose events they are.
check_rate_limit_any_user(cs, limit, user_id, current_time) ==
    LET pruned == PruneCalls(cs, current_time)
    IN  IF Len(pruned) >= limit
        THEN [calls |-> pruned, allowed |-> FALSE]
        ELSE [calls |-> Append(pruned, <<user_id, current_time>>), allowed |-> TRUE]

\* A limiter that records the rejected call too
check_rate_limit_records_rejected(cs, limit, user_id, current_time) ==
    LET pruned == PruneCalls(cs, current_time)
    IN  [calls |-> Append(pruned, <<user_id, current_time>>),
         allowed |-> UserCalls(pruned, user_id) < limit]

\* One whole call: the store after it and the verdict
check_rate_limit(cs, limit, user_id, current_time) ==
    LET pruned == PruneCalls(cs, current_time)
    IN  IF UserCalls(pruned, user_id) >= limit
        THEN [calls |-> pruned, allowed |-> FALSE]
        ELSE [calls |-> Append(pruned, <<user_id, current_time>>), allowed |-> TRUE]

Users == {"u1", "u2"}
Threads == {"t1", "t2"}
\* Every thread of the model calls for the same identity.
ThreadUser(t) == "u1"

MaxCallsPerMinute == 2
MaxClock == 121
MaxChecks == 5
MaxThreadCalls == 2
Deltas == {30, 59, 60, 61}

LastCall(uid, time, allowed, before) ==
    [made |-> TRUE, uid |-> uid, time |-> time, allowed |-> allowed, before |-> before]
NoCall == [made |-> FALSE, uid |-> "", time |-> 0, allowed |-> FALSE, before |-> <<>>]

----------------------------------------------------------------------------
(* Backend error messages: a sequence of fragments separated by "; ".      *)
(* A fragment is a fixed phrase, some with an identifier in it:            *)
(*   column_does_not_exist   column 'X' does not exist                     *)
(*   unknown_column          Unknown column 'X'                            *)
(*   no_such_column          no such column: X                             *)
(*   table_not_found         table 'X' not found                           *)
(*   no_such_table           no such table: X                              *)
(*   syntax_error_near       syntax error near 'FROM'                      *)
(*   type_mismatch           type mismatch                                 *)
(*   not_a_group_by          not a GROUP BY expression                     *)
(*   connection_lost         connection lost                               *)

Frag(form, ident) == [form |-> form, ident |-> ident]

\* A pattern dict that lists table_not_found before column_not_found
ERROR_PATTERNS_table_first ==
    << <<"table_not_found", {"table_not_found", "no_such_table"}>>,
       <<"column_not_found", {"column_does_not_exist", "unknown_column", "no_such_column"}>>,
       <<"syntax_error", {"syntax_error_near"}>>,
       <<"type_mismatch", {"type_mismatch"}>>,
       <<"aggregate_error", {"not_a_group_by"}>> >>

\* SQLErrorAnalyzer.ERROR_PATTERNS: the categories in dict order, each with
\* the fragments that one of its patterns matches
ERROR_PATTERNS ==
    << <<"column_not_found", {"column_does_not_exist", "unknown_column", "no_such_column"}>>,
       <<"table_not_found", {"table_not_found", "no_such_table"}>>,
       <<"syntax_error", {"syntax_error_near"}>>,
       <<"type_mismatch", {"type_mismatch"}>>,
       <<"aggregate_error", {"not_a_group_by"}>> >>

\* re.search(pattern, error_message) for some pattern of the category
CategoryMatches(i, msg) ==
    \E j \in DOMAIN msg : msg[j].form \in ERROR_PATTERNS[i][2]

\* SQLErrorAnalyzer.analyze_error: the error_type
analyze_error(msg) ==
    IF \E i \in DOMAIN ERROR_PATTERNS : CategoryMatches(i, msg)
    THEN ERROR_PATTERNS[CHOOSE i \in DOMAIN ERROR_PATTERNS :
                            /\ CategoryMatches(i, msg)
                            /\ \A j \in 1..(i - 1) : ~CategoryMatches(j, msg)][1]
    ELSE "unknown"

\* re.search(r"column '?(\w+)'?", error_message): group 1 of the leftmost
\* match, None without a match ("column: X" does not match)
ExtractAfter(forms, msg) ==
    IF \E j \in DOMAIN msg : msg[j].form \in forms
    THEN <<msg[CHOOSE j \in DOMAIN msg :
                 /\ msg[j].form \in forms
                 /\ \A m \in 1..(j - 1) : msg[m].form \notin forms].ident>>
    ELSE None

ExtractColumn(msg) == ExtractAfter({"column_does_not_exist", "unknown_column"}, msg)
ExtractTable(msg) == ExtractAfter({"table_not_found"}, msg)

----------------------------------------------------------------------------
(* SQLCorrector (sql_error_correction.py)                                  *)

Min2(a, b) == IF a <= b THEN a ELSE b

RECURSIVE levenshtein_distance(_, _)
levenshtein_distance(s1, s2) ==
    IF Len(s1) = 0 THEN Len(s2)
    ELSE IF Len(s2) = 0 THEN Len(s1)
    ELSE Min2(Min2(levenshtein_distance(Tail(s1), s2) + 1,
                   levenshtein_distance(s1, Tail(s2)) + 1),
              levenshtein_distance(Tail(s1), Tail(s2))
                  + (IF Head(s1) = Head(s2) THEN 0 ELSE 1))

\* _find_similar_string: the first candidate of least distance, if that
\* distance is at most len(target) // 2 (the sort is stable)
find_similar_string(target, candidates) ==
    IF candidates = <<>> THEN None
    ELSE LET d(i) == levenshtein_distance(target, candidates[i])
             best == CHOOSE i \in DOMAIN candidates :
                        /\ \A j \in DOMAIN candidates : d(i) <= d(j)
                        /\ \A j \in 1..(i - 1) : d(j) > d(i)
         IN  IF d(best) <= Len(target) \div 2 THEN <<candidates[best]>> ELSE None

IsPrefix(p, s) == Len(p) <= Len(s) /\ SubSeq(s, 1, Len(p)) = p

RECURSIVE ReplaceAll(_, _, _)
\* str.replace(old, new) on one word: leftmost occurrences, not overlapping
ReplaceAll(s, old, new) ==
    IF Len(s) = 0 \/ Len(old) = 0 THEN s
    ELSE IF IsPrefix(old, s)
         THEN new \o ReplaceAll(SubSeq(s, Len(old) + 1, Len(s)), old, new)
         ELSE <<Head(s)>> \o ReplaceAll(Tail(s), old, new)

\* sql.replace(old, new): in every token written with identifier characters.
\* The keywords of the model are upper case and the identifiers lower case,
\* so the replacement never touches a keyword.
ReplaceInSql(sql, old, new) ==
    [i \in DOMAIN sql |->
        IF sql[i].k \in {"id", "raw", "lit", "dq"}
        THEN [sql[i] EXCEPT !.s = ReplaceAll(sql[i].s, old, new)]
        ELSE sql[i]]

\* re.sub(rf"\b{old}\b", new, sql): whole words only
ReplaceWordInSql(sql, old, new) ==
    [i \in DOMAIN sql |->
        IF sql[i].k \in {"id", "raw", "lit", "dq"} /\ sql[i].s = old
        THEN [sql[i] EXCEPT !.s = new]
        ELSE sql[i]]

Correction(original, corrected, type, tenths) ==
    [original_sql |-> original, corrected_sql |-> corrected,
     correction_type |-> type, confidence_tenths |-> tenths]

\* The insertion order of SchemaManager.tables in the model
TableInsertionOrder == <<<<"a", "b">>, <<"b", "b">>, <<"s">>, <<"u">>>>

\* SchemaManager.get_all_tables
get_all_tables(tbls) == SelectSeq(TableInsertionOrder, LAMBDA n : n \in DOMAIN tbls)

\* A token that is read as one or more words (\w+)
IsWordToken(tok) == tok.k \in {"kw", "num"} \/ IsNameToken(tok)

\* re.search(r"FROM\s+(\w+)", sql): the position of the leftmost FROM that a
\* word follows, 0 without a match
table_match(sql) ==
    LET hits == {i \in 1..(Len(sql) - 1) : sql[i] = Kw("FROM") /\ IsWordToken(sql[i + 1])}
    IN  IF hits = {} THEN 0 ELSE CHOOSE i \in hits : \A j \in hits : i <= j

\* get_table_columns(table_match.group(1)): a keyword or a number after FROM
\* names no table of the catalog
matched_table_columns(tbls, sql) ==
    IF table_match(sql) = 0 THEN None
    ELSE IF IsNameToken(sql[table_match(sql) + 1])
         THEN get_table_columns(tbls, sql[table_match(sql) + 1].s)
         ELSE None

correct_column_name(tbls, sql, msg) ==
    LET wrong == ExtractColumn(msg)
        table_columns == matched_table_columns(tbls, sql)
    IN  IF wrong = None THEN None
        ELSE IF table_columns = <<>> THEN None
        ELSE LET similar == find_similar_string(wrong[1], table_columns)
             IN  IF similar = None THEN None
                 ELSE <<Correction(sql, ReplaceInSql(sql, wrong[1], similar[1]),
                                   "column_name", 8)>>

correct_table_name(tbls, sql, msg) ==
    LET wrong == ExtractTable(msg)
    IN  IF wrong = None THEN None
        ELSE LET similar == find_similar_string(wrong[1], get_all_tables(tbls))
             IN  IF similar = None THEN None
                 ELSE <<Correction(sql, ReplaceWordInSql(sql, wrong[1], similar[1]),
                                   "table_name", 8)>>

\* "body": the characters written between two double quotes
DQ(s) == [k |-> "dq", w |-> "", s |-> s, n |-> 0]

RECURSIVE FixMissingComma(_)
\* re.sub(r"(\w+)\s+(\w+)\s+FROM", r"\1, \2 FROM", sql)
FixMissingComma(sql) ==
    IF Len(sql) < 3 THEN sql
    ELSE IF IsWordToken(sql[1]) /\ IsWordToken(sql[2]) /\ sql[3] = Kw("FROM")
         THEN <<sql[1], Sym(","), sql[2], sql[3]>> \o FixMissingComma(SubSeq(sql, 4, Len(sql)))
         ELSE <<Head(sql)>> \o FixMissingComma(Tail(sql))

\* re.sub(r'"([^"]+)"', r"'\1'", sql)
FixDoubleQuotes(sql) ==
    [i \in DOMAIN sql |->
        IF sql[i].k = "dq" /\ Len(sql[i].s) > 0 THEN Lit(sql[i].s) ELSE sql[i]]

\* The least element of a non-empty set of positions
First(S) == CHOOSE i \in S : \A j \in S : i <= j
Last(S) == CHOOSE i \in S : \A j \in S : i >= j

Positions(sql, toks) == {i \in DOMAIN sql : sql[i] \in toks}
After(S, i) == {j \in S : j > i}

\* re.search(r"(SELECT.*?\bCOUNT\b.*?FROM.*?)(?!.*GROUP BY)", sql): the
\* position of the FROM that ends the lazy match, 0 without a match
CountFromMatch(sql) ==
    LET sel == Positions(sql, {Kw("SELECT")})
        cnt == Positions(sql, {Kw("COUNT")})
        frm == Positions(sql, {Kw("FROM")})
        ok == {i \in sel : \E j \in After(cnt, i) : After(frm, j) # {}}
    IN  IF ok = {} THEN 0
        ELSE First(After(frm, First(After(cnt, First(ok)))))

\* re.sub of that pattern by r"\1 GROUP BY 1": group 1 ends right after FROM
\* when no GROUP BY follows, and otherwise after the G of the last GROUP BY,
\* the first place with no GROUP BY ahead
FixMissingGroupBy(sql) ==
    LET k == CountFromMatch(sql)
        gb == After(Positions(sql, {Kw("GROUP BY")}), k)
    IN  IF gb = {}
        THEN SubSeq(sql, 1, k) \o <<Kw("GROUP BY"), Num(1)>> \o SubSeq(sql, k + 1, Len(sql))
        ELSE SubSeq(sql, 1, Last(gb) - 1)
             \o <<Kw("G"), Kw("GROUP BY"), Kw("1ROUP BY")>>
             \o SubSeq(sql, Last(gb) + 1, Len(sql))

\* _correct_syntax: the first fix whose pattern matches changes the text
correct_syntax(sql) ==
    IF FixMissingComma(sql) # sql
    THEN <<Correction(sql, FixMissingComma(sql), "syntax", 6)>>
    ELSE IF FixDoubleQuotes(sql) # sql
    THEN <<Correction(sql, FixDoubleQuotes(sql), "syntax", 6)>>
    ELSE IF CountFromMatch(sql) # 0
    THEN <<Correction(sql, FixMissingGroupBy(sql), "syntax", 6)>>
    ELSE None

\* A type cast strategy that returns the text unchanged as a correction
correct_type_cast_unchanged(sql) == <<Correction(sql, sql, "type_cast", 5)>>

\* _correct_type_cast
correct_type_cast(sql) == None

RECURSIVE SplitOn(_, _)
\* select_clause.split(','): the token runs between the separators
SplitOn(toks, sep) ==
    IF \E i \in DOMAIN toks : toks[i] = sep
    THEN LET i == First(Positions(toks, {sep}))
         IN  <<SubSeq(toks, 1, i - 1)>> \o SplitOn(SubSeq(toks, i + 1, Len(toks)), sep)
    ELSE <<toks>>

HasSubSeq(s, p) == \E i \in 1..(Len(s) - Len(p) + 1) : SubSeq(s, i, i + Len(p) - 1) = p

\* any(agg in col.upper() for agg in ['COUNT', 'SUM', 'AVG', 'MIN', 'MAX'])
MentionsAggregate(col) ==
    \E i \in DOMAIN col :
        \/ col[i].k = "kw" /\ col[i].w \in valid_agg_funcs
        \/ /\ col[i].k \in {"id", "raw", "lit", "dq"}
           /\ \E p \in {<<"c", "o", "u", "n", "t">>, <<"s", "u", "m">>, <<"a", "v", "g">>,
                        <<"m", "i", "n">>, <<"m", "a", "x">>} : HasSubSeq(col[i].s, p)

\* Symbols written without a blank before them, and without one after them
NoBlankBefore == {Sym(","), Sym(")"), Sym("(")}
NoBlankAfter == {Sym("(")}

\* re.search(r"SELECT\s+(.*?)\s+FROM", sql): group 1, <<>> without a match.
\* The match starts at the leftmost SELECT that a blank follows and ends at
\* the first later FROM that a blank precedes, with text in between.
select_clause(sql) ==
    LET ends(i) == {k \in After(Positions(sql, {Kw("FROM")}), i + 1) :
                       sql[k - 1] \notin NoBlankAfter}
        ok == {i \in Positions(sql, {Kw("SELECT")}) :
                  /\ i < Len(sql)
                  /\ sql[i + 1] \notin NoBlankBefore
                  /\ ends(i) # {}}
    IN  IF ok = {} THEN <<>>
        ELSE SubSeq(sql, First(ok) + 1, First(ends(First(ok))) - 1)

\* White space at the end of a text.  Everywhere else the words of a text
\* are one blank apart, which the token sequence leaves implicit.
Space == Sym(" ")

RECURSIVE RStrip(_)
\* str.rstrip()
RStrip(sql) ==
    IF Len(sql) > 0 /\ sql[Len(sql)] = Space THEN RStrip(SubSeq(sql, 1, Len(sql) - 1))
    ELSE sql

\* _correct_group_by.  An existing GROUP BY is replaced up to the next
\* ORDER BY or LIMIT or the end of the text, by the clause and one blank.
correct_group_by(sql) ==
    LET non_aggregate_cols == SelectSeq(SplitOn(select_clause(sql), Sym(",")),
                                        LAMBDA c : ~MentionsAggregate(c))
        group_by_clause == <<Kw("GROUP BY")>> \o JoinTokens(non_aggregate_cols, Sym(","))
        gb == Positions(sql, {Kw("GROUP BY")})
        ob == Positions(sql, {Kw("ORDER BY")})
        lm == Positions(sql, {Kw("LIMIT")})
        stop(g) == IF After(ob \cup lm, g) = {} THEN Len(sql) + 1
                   ELSE First(After(ob \cup lm, g))
        corrected ==
            IF gb # {}
            THEN SubSeq(sql, 1, First(gb) - 1) \o group_by_clause
                 \o (IF stop(First(gb)) = Len(sql) + 1 THEN <<Space>> ELSE <<>>)
                 \o SubSeq(sql, stop(First(gb)), Len(sql))
            ELSE IF ob # {}
            THEN SubSeq(sql, 1, First(ob) - 1) \o group_by_clause
                 \o SubSeq(sql, First(ob), Len(sql))
            ELSE IF lm # {}
            THEN SubSeq(sql, 1, First(lm) - 1) \o group_by_clause
                 \o SubSeq(sql, First(lm), Len(sql))
            ELSE RStrip(sql) \o group_by_clause
    IN  IF select_clause(sql) = <<>> THEN None
        ELSE IF non_aggregate_cols = <<>> THEN None
        ELSE IF corrected = sql THEN None
        ELSE <<Correction(sql, corrected, "group_by", 7)>>

\* A corrector that answers an unclassified error with the text unchanged
correct_query_keeps_unknown(tbls, sql, msg) ==
    CASE analyze_error(msg) = "column_not_found" -> correct_column_name(tbls, sql, msg)
      [] analyze_error(msg) = "table_not_found" -> correct_table_name(tbls, sql, msg)
      [] analyze_error(msg) = "syntax_error" -> correct_syntax(sql)
      [] analyze_error(msg) = "type_mismatch" -> correct_type_cast(sql)
      [] analyze_error(msg) = "aggregate_error" -> correct_group_by(sql)
      [] OTHER -> <<Correction(sql, sql, "unknown", 5)>>

\* SQLCorrector.correct_query
correct_query(tbls, sql, msg) ==
    CASE analyze_error(msg) = "column_not_found" -> correct_column_name(tbls, sql, msg)
      [] analyze_error(msg) = "table_not_found" -> correct_table_name(tbls, sql, msg)
      [] analyze_error(msg) = "syntax_error" -> correct_syntax(sql)
      [] analyze_error(msg) = "type_mismatch" -> correct_type_cast(sql)
      [] analyze_error(msg) = "aggregate_error" -> correct_group_by(sql)
      [] OTHER -> None

----------------------------------------------------------------------------
(* SQLGenerator.parse_query_intent (sql_generator.py) and                  *)
(* DatabricksInsightAgent (src/core/agent.py)                              *)

\* The words sought in query_lower that a piece holds
PieceWords(p) ==
    CASE p = "show" -> {"show"}
      [] p = "get" -> {"get"}
      [] p \in {"count", "Count"} -> {"count"}
      [] p = "total" -> {"total"}
      [] p = "sum" -> {"sum"}
      [] p = "average" -> {"average"}
      [] p = "avg" -> {"avg"}
      [] p = "top" -> {"top"}
      [] p = "explain" -> {"explain"}
      [] OTHER -> {}

\* The one-letter table names that the lower-cased piece holds
PieceLetters(p) ==
    CASE p \in {"s", "sp_", "show"} -> {<<"s">>}
      [] p \in {"u", "count", "Count", "EXECUTE"} -> {<<"u">>}
      [] p \in {"UNION SELECT", "sum"} -> {<<"s">>, <<"u">>}
      [] OTHER -> {}

\* The one word that can lie across pieces of the model: "how to", in
\* "show" + " " + a piece that begins with "to"
AcrossPieces(word, q) ==
    /\ word = "how to"
    /\ \E i \in 1..(Len(q) - 2) :
          q[i] = "show" /\ q[i + 1] = " " /\ q[i + 2] \in {"top", "total"}

\* word in query_lower
InQuery(word, q) ==
    \/ \E i \in DOMAIN q : word \in PieceWords(q[i])
    \/ AcrossPieces(word, q)

\* any(keyword in query_lower for keyword in words)
AnyInQuery(words, q) == \E w \in words : InQuery(w, q)

\* table_name.lower() in query_lower, for the one-letter names of the model
TableInQuery(name, q) == \E i \in DOMAIN q : name \in PieceLetters(q[i])

\* re.search(r'(?:top|first|limit)\s+(\d+)', query_lower): group 1 as a
\* number, None without a match
limit_match(q) == IF \E i \in DOMAIN q : q[i] = "limit 2" THEN <<2>> ELSE None

star == <<"*">>
value == <<"v", "a", "l", "u", "e">>

\* parse_query_intent, and the table name that _generate_safe_sql puts in
parse_query_intent(q, table_name) ==
    [table_name |-> table_name,
     columns |-> <<>>,
     filters |-> <<>>,
     \* None, or {} after the outer test: no aggregation either way
     aggregations |-> IF AnyInQuery({"count", "total", "sum", "average", "avg"}, q)
                      THEN (IF AnyInQuery({"count", "total"}, q)
                            THEN <<<<star, "COUNT">>>> ELSE <<>>)
                      ELSE <<>>,
     group_by |-> <<>>,
     order_by |-> IF AnyInQuery({"top", "highest", "largest"}, q)
                  THEN <<<<value, "DESC">>>> ELSE <<>>,
     limit |-> IF limit_match(q) # None THEN limit_match(q)
               ELSE IF InQuery("top", q) THEN <<10>> ELSE None]

QueryAnalysis(query_type, target_tables) ==
    [query_type |-> query_type, target_tables |-> target_tables]

NoAnalysis == QueryAnalysis("none", <<>>)

\* DatabricksInsightAgent.analyze_query
analyze_query(tbls, q) ==
    LET target_tables == SelectSeq(get_all_tables(tbls), LAMBDA n : TableInQuery(n, q))
        needs_sql == AnyInQuery({"show", "get", "find", "list", "count", "sum", "average",
                                 "total", "calculate"}, q)
        needs_context == AnyInQuery({"explain", "what is", "how to", "describe",
                                     "tell me about"}, q)
    IN  IF /\ target_tables = <<>>
           /\ AnyInQuery({"show", "get", "find", "list", "count", "sum", "average"}, q)
        THEN QueryAnalysis("CLARIFICATION", <<>>)
        ELSE IF needs_sql /\ ~needs_context THEN QueryAnalysis("SQL_ONLY", target_tables)
        ELSE IF needs_context /\ ~needs_sql THEN QueryAnalysis("CONTEXT_ONLY", target_tables)
        ELSE QueryAnalysis("BOTH", target_tables)

\* AgentResponse; insights is the set of sections of the insights text
AgentResponse(success, query_type, sql_query, results, context, insights, clarification_needed, error) ==
    [success |-> success, query_type |-> query_type, sql_query |-> sql_query,
     results |-> results, context |-> context, insights |-> insights,
     clarification_needed |-> clarification_needed, error |-> error]

\* The error texts of process_query
ErrorText(kind, reason) == <<[kind |-> kind, reason |-> reason]>>

\* A mutant check that lets every input through
SecurityRejects_never(verdict) == FALSE

\* if not is_valid
SecurityRejects(verdict) == ~verdict.ok

\* The rule-based part of _generate_insights
rule_based_insights(results, context) ==
    LET parts == (IF context # None /\ context # <<"">> THEN {"context"} ELSE {})
                 \cup (IF results # None /\ results[1] > 0 THEN {"analysis"} ELSE {})
    IN  IF parts = {} THEN {"no_specific_insights"} ELSE parts

NoCalls ==
    [rate_limiter |-> 0, context_retriever |-> 0, sql_generator |-> 0, llm_service |-> 0,
     validate_sql |-> 0, databricks_client |-> 0]

----------------------------------------------------------------------------
(* The state of a component that a specification leaves alone              *)

IdleGen == intent = NoIntent /\ gen_sql = NoSQL /\ gen_pc = "idle"

IdleRate ==
    /\ max_calls = 0
    /\ calls = <<>>
    /\ clock = 0
    /\ rl_last = NoCall
    /\ rl_admitted = <<>>
    /\ rl_checks = 0

IdleIso == calls_b = <<>> /\ rl_last_b = NoCall

IdleThreads ==
    /\ th_pc = [t \in Threads |-> "idle"]
    /\ th_now = [t \in Threads |-> 0]
    /\ th_pruned = [t \in Threads |-> <<>>]
    /\ th_count = [t \in Threads |-> 0]

IdleParse ==
    /\ pq_user_query = <<>> /\ pq_intent = NoIntent /\ pq_pc = "idle"

IdleSanitize ==
    /\ san_input = <<>> /\ san_output = <<>> /\ san_again = <<>> /\ san_pc = "idle"

IdleCorrect ==
    /\ cq_sql_query = NoSQL /\ cq_error_message = <<>> /\ cq_error_type = ""
    /\ cq_correction = None /\ cq_pc = "idle"

IdleRetry ==
    /\ rx_max_retries = 0 /\ rx_sql_query = NoSQL /\ rx_query = NoSQL /\ rx_attempt = 0 /\ rx_log = <<>>
    /\ rx_calls = 0 /\ rx_sent = NoSQL /\ rx_result = None /\ rx_pc = "idle"

IdleAgent ==
    /\ ag_cfg = [rate_limiter |-> FALSE, llm_service |-> FALSE, context_retriever |-> FALSE]
    /\ ag_query = <<>>
    /\ ag_pc = "idle"
    /\ ag_analysis = NoAnalysis
    /\ ag_context = None
    /\ ag_sql = NoSQL
    /\ ag_results = None
    /\ ag_response = None
    /\ ag_calls = NoCalls

IdleVal ==
    /\ max_query_length = 0
    /\ val_call = "idle"
    /\ user_query = <<>>
    /\ sql_text = <<>>
    /\ val_result = Verdict(TRUE, NoReason)
    /\ val_pc = "idle"

----------------------------------------------------------------------------
(* Specification SpecGen: one generate_sql call on any catalog and intent  *)

InitGen ==
    /\ tables \in Catalogs
    /\ intent \in Intents
    /\ gen_sql = NoSQL
    /\ gen_pc = "call"
    /\ IdleVal /\ IdleRate /\ IdleIso /\ IdleThreads /\ IdleRetry /\ IdleAgent /\ IdleCorrect /\ IdleSanitize /\ IdleParse

Generate ==
    /\ gen_pc = "call"
    /\ gen_sql' = generate_sql(tables, intent)
    /\ gen_pc' = "returned"
    /\ UNCHANGED <<tables, intent, valVars, rateVars, isoVars, threadVars, retryVars, agentVars, correctVars, sanitizeVars, parseVars>>

NextGen == Generate

SpecGen == InitGen /\ [][NextGen]_vars

\* C1: whenever generate_sql returns SQL, its table is in the catalog and
\* every column the text references (SELECT list, aggregation targets,
\* WHERE, GROUP BY, ORDER BY) is a column of that table.
C1_OnlyVerifiedIdentifiers ==
    (gen_pc = "returned" /\ gen_sql # NoSQL) =>
        /\ FromTable(gen_sql) # None
        /\ FromTable(gen_sql)[1] \in DOMAIN tables
        /\ ReferencedColumns(gen_sql) \subseteq Range(tables[FromTable(gen_sql)[1]])

----------------------------------------------------------------------------
(* Specification SpecVal: one call of a SecurityValidator method           *)

InitVal ==
    /\ tables = <<>>
    /\ IdleGen /\ IdleRate /\ IdleIso /\ IdleThreads /\ IdleRetry /\ IdleAgent /\ IdleCorrect /\ IdleSanitize /\ IdleParse
    /\ \/ /\ val_call = "validate_query"
          /\ max_query_length \in 1..MaxQueryLen
          /\ user_query \in ValQueries
          /\ sql_text = <<>>
       \/ /\ val_call = "validate_sql"
          /\ max_query_length = MaxQueryLen
          /\ user_query = <<>>
          /\ sql_text \in ValSqlTexts
    /\ val_result = Verdict(TRUE, NoReason)
    /\ val_pc = "call"

ValidateQuery ==
    /\ val_pc = "call" /\ val_call = "validate_query"
    /\ val_result' = validate_query(user_query, max_query_length)
    /\ val_pc' = "returned"
    /\ UNCHANGED <<max_query_length, val_call, user_query, sql_text>>
    /\ UNCHANGED <<tables, genVars, rateVars, isoVars, threadVars, retryVars, agentVars, correctVars, sanitizeVars, parseVars>>

ValidateSql ==
    /\ val_pc = "call" /\ val_call = "validate_sql"
    /\ val_result' = validate_sql(sql_text)
    /\ val_pc' = "returned"
    /\ UNCHANGED <<max_query_length, val_call, user_query, sql_text>>
    /\ UNCHANGED <<tables, genVars, rateVars, isoVars, threadVars, retryVars, agentVars, correctVars, sanitizeVars, parseVars>>

NextVal == ValidateQuery \/ ValidateSql

SpecVal == InitVal /\ [][NextVal]_vars

\* The four checks of validate_query, each on its own
TooLong(q, max_len) == TextLen(q) > max_len
HasInjection(q) == \E pat \in Range(sql_injection_patterns) : PatternSearch(pat, q)
HasKeyword(q) == \E kw \in Range(dangerous_sql_keywords) : KeywordSearch(kw, q)

ValidateQueryReturned == val_pc = "returned" /\ val_call = "validate_query"
ValidateSqlReturned == val_pc = "returned" /\ val_call = "validate_sql"

\* C4: validate_sql accepts a text if and only if it parses as exactly one
\* statement and that statement is a SELECT.
C4_ExactlyOneSelect ==
    ValidateSqlReturned =>
        (val_result.ok <=>
            /\ Len(sqlparse_parse(sql_text)) = 1
            /\ get_type(sqlparse_parse(sql_text)[1]) = "SELECT")

\* C5: the reason validate_query reports is that of the first failing check
\* in the order length, emptiness, injection patterns, forbidden keywords;
\* a text that fails only the keyword check is rejected with a reason that
\* names a forbidden keyword the text holds as a whole word.
C5_FirstFailingCheckReported ==
    ValidateQueryReturned =>
        LET q == user_query
            r == val_result.reason
            long == TooLong(q, max_query_length)
            empty == StripEmpty(q)
            inj == HasInjection(q)
            kw == HasKeyword(q)
        IN  /\ val_result.ok <=> ~(long \/ empty \/ inj \/ kw)
            /\ long => r.kind = "exceeds_maximum_length"
            /\ (~long /\ empty) => r.kind = "cannot_be_empty"
            /\ (~long /\ ~empty /\ inj) => r.kind = "dangerous_sql_patterns"
            /\ (~long /\ ~empty /\ ~inj /\ kw) =>
                    /\ r.kind = "forbidden_sql_keyword"
                    /\ r.kw \in Range(dangerous_sql_keywords)
                    /\ KeywordSearch(r.kw, q)

\* C5 witness: a text that holds an injection pattern and a forbidden keyword
\* and is not too long was rejected for the pattern.
C5_Witness ==
    /\ ValidateQueryReturned
    /\ ~TooLong(user_query, max_query_length)
    /\ HasInjection(user_query) /\ HasKeyword(user_query)
    /\ val_result = Verdict(FALSE, Reason("dangerous_sql_patterns", 0, ""))

\* C6: a text of exactly max_query_length characters that passes the other
\* checks is accepted; a text of max_query_length + 1 characters is rejected
\* with the length reason.
C6_LengthBoundary ==
    ValidateQueryReturned =>
        /\ (/\ TextLen(user_query) = max_query_length
            /\ ~StripEmpty(user_query)
            /\ ~HasInjection(user_query)
            /\ ~HasKeyword(user_query)) => val_result.ok
        /\ TextLen(user_query) = max_query_length + 1 =>
                val_result =
                    Verdict(FALSE, Reason("exceeds_maximum_length", max_query_length, ""))

\* C6 witness: a text of exactly max_query_length characters was accepted.
C6_Witness ==
    /\ ValidateQueryReturned
    /\ TextLen(user_query) = max_query_length
    /\ val_result.ok

----------------------------------------------------------------------------
(* Specification SpecRate: sequential check_rate_limit calls on one        *)
(* limiter, the clock never going back                                     *)

InitRate ==
    /\ tables = <<>>
    /\ IdleGen /\ IdleVal /\ IdleIso /\ IdleThreads /\ IdleRetry /\ IdleAgent /\ IdleCorrect /\ IdleSanitize /\ IdleParse
    /\ max_calls \in 1..MaxCallsPerMinute
    /\ calls = <<>>
    /\ clock = 0
    /\ rl_last = NoCall
    /\ rl_admitted = <<>>
    /\ rl_checks = 0

Tick ==
    /\ \E d \in Deltas : clock + d <= MaxClock /\ clock' = clock + d
    /\ UNCHANGED <<max_calls, calls, rl_last, rl_admitted, rl_checks>>
    /\ UNCHANGED <<tables, genVars, valVars, isoVars, threadVars, retryVars, agentVars, correctVars, sanitizeVars, parseVars>>

CheckRateLimit ==
    /\ rl_checks < MaxChecks
    /\ \E u \in Users :
        LET r == check_rate_limit(calls, max_calls, u, clock)
        IN  /\ calls' = r.calls
            /\ rl_last' = LastCall(u, clock, r.allowed, rl_admitted)
            /\ rl_admitted' = IF r.allowed THEN Append(rl_admitted, <<u, clock>>)
                                           ELSE rl_admitted
    /\ rl_checks' = rl_checks + 1
    /\ UNCHANGED <<max_calls, clock>>
    /\ UNCHANGED <<tables, genVars, valVars, isoVars, threadVars, retryVars, agentVars, correctVars, sanitizeVars, parseVars>>

NextRate == Tick \/ CheckRateLimit

SpecRate == InitRate /\ [][NextRate]_vars

\* The admitted events of uid in hist that are not older than the window
NotOlderThanWindow(hist, uid, now) ==
    Cardinality({i \in DOMAIN hist : hist[i][1] = uid /\ now - hist[i][2] <= Window})

\* C7: a call is rejected exactly when the identity's previously admitted
\* events that are not older than 60 seconds number at least max_calls,
\* and is otherwise admitted and recorded.
C7_RejectedIffQuotaUsed ==
    rl_last.made =>
        /\ ~rl_last.allowed <=>
              NotOlderThanWindow(rl_last.before, rl_last.uid, rl_last.time) >= max_calls
        /\ rl_last.allowed =>
              /\ calls # <<>>
              /\ calls[Len(calls)] = <<rl_last.uid, rl_last.time>>

----------------------------------------------------------------------------
(* Specification SpecIso: two runs of one limiter configuration.  Both     *)
(* runs make the same calls for identity u1 at the same times; each run    *)
(* makes calls of its own for the other identities.                        *)

MaxIsoChecks == 5

InitIso ==
    /\ tables = <<>>
    /\ IdleGen /\ IdleVal /\ IdleThreads /\ IdleRetry /\ IdleAgent /\ IdleCorrect /\ IdleSanitize /\ IdleParse
    /\ max_calls \in 1..MaxCallsPerMinute
    /\ calls = <<>> /\ calls_b = <<>>
    /\ clock = 0
    /\ rl_last = NoCall /\ rl_last_b = NoCall
    /\ rl_admitted = <<>>
    /\ rl_checks = 0

IsoTick ==
    /\ \E d \in Deltas : clock + d <= MaxClock /\ clock' = clock + d
    /\ UNCHANGED <<max_calls, calls, rl_last, rl_admitted, rl_checks, isoVars>>
    /\ UNCHANGED <<tables, genVars, valVars, threadVars, retryVars, agentVars, correctVars, sanitizeVars, parseVars>>

\* The same call for u1 in both runs
IsoCallBoth ==
    /\ rl_checks < MaxIsoChecks
    /\ LET r == check_rate_limit(calls, max_calls, "u1", clock)
           rb == check_rate_limit(calls_b, max_calls, "u1", clock)
       IN  /\ calls' = r.calls
           /\ calls_b' = rb.calls
           /\ rl_last' = LastCall("u1", clock, r.allowed, <<>>)
           /\ rl_last_b' = LastCall("u1", clock, rb.allowed, <<>>)
    /\ rl_checks' = rl_checks + 1
    /\ UNCHANGED <<max_calls, clock, rl_admitted>>
    /\ UNCHANGED <<tables, genVars, valVars, threadVars, retryVars, agentVars, correctVars, sanitizeVars, parseVars>>

\* A call for another identity in the first run only
IsoCallOtherFirst ==
    /\ rl_checks < MaxIsoChecks
    /\ \E u \in Users \ {"u1"} :
        calls' = check_rate_limit(calls, max_calls, u, clock).calls
    /\ rl_checks' = rl_checks + 1
    /\ UNCHANGED <<max_calls, clock, rl_last, rl_admitted, isoVars>>
    /\ UNCHANGED <<tables, genVars, valVars, threadVars, retryVars, agentVars, correctVars, sanitizeVars, parseVars>>

\* A call for another identity in the second run only
IsoCallOtherSecond ==
    /\ rl_checks < MaxIsoChecks
    /\ \E u \in Users \ {"u1"} :
        calls_b' = check_rate_limit(calls_b, max_calls, u, clock).calls
    /\ rl_checks' = rl_checks + 1
    /\ UNCHANGED <<max_calls, calls, clock, rl_last, rl_admitted, rl_last_b>>
    /\ UNCHANGED <<tables, genVars, valVars, threadVars, retryVars, agentVars, correctVars, sanitizeVars, parseVars>>

NextIso == IsoTick \/ IsoCallBoth \/ IsoCallOtherFirst \/ IsoCallOtherSecond

SpecIso == InitIso /\ [][NextIso]_vars

\* C8: every call for u1 gets the same outcome in both runs, whatever calls
\* the runs made for other identities.
C8_PerIdentityIsolation ==
    /\ rl_last.made <=> rl_last_b.made
    /\ rl_last.made =>
          /\ rl_last.allowed = rl_last_b.allowed
          /\ rl_last.time = rl_last_b.time

\* C8 witness: u1 was admitted in both runs although, in the second run
\* only, another identity has used up its quota inside the window.
C8_Witness ==
    /\ rl_last.made /\ rl_last.allowed /\ rl_last_b.allowed
    /\ UserCalls(PruneCalls(calls_b, clock), "u2") >= max_calls
    /\ UserCalls(calls, "u2") = 0

----------------------------------------------------------------------------
(* Specification SpecThreads: check_rate_limit called by several threads   *)
(* on one limiter.  The method takes no lock; a thread may be switched out *)
(* between building the pruned list and assigning it, between the          *)
(* assignment and the count, and between the count and the append.  The    *)
(* clock stands still: all the calls fall into one window.                 *)

InitThreads ==
    /\ tables = <<>>
    /\ IdleGen /\ IdleVal /\ IdleIso /\ IdleRetry /\ IdleAgent /\ IdleCorrect /\ IdleSanitize /\ IdleParse
    /\ max_calls \in 1..MaxCallsPerMinute
    /\ calls = <<>>
    /\ clock = 0
    /\ rl_last = NoCall
    /\ rl_admitted = <<>>
    /\ rl_checks = 0
    /\ th_pc = [t \in Threads |-> "idle"]
    /\ th_now = [t \in Threads |-> 0]
    /\ th_pruned = [t \in Threads |-> <<>>]
    /\ th_count = [t \in Threads |-> 0]

\* current_time = time.time()
ThreadEnter(t) ==
    /\ th_pc[t] = "idle"
    /\ rl_checks < MaxThreadCalls * Cardinality(Threads)
    /\ rl_checks' = rl_checks + 1
    /\ th_now' = [th_now EXCEPT ![t] = clock]
    /\ th_pc' = [th_pc EXCEPT ![t] = "prune"]
    /\ UNCHANGED <<max_calls, calls, clock, rl_last, rl_admitted, th_pruned, th_count>>
    /\ UNCHANGED <<tables, genVars, valVars, isoVars, retryVars, agentVars, correctVars, sanitizeVars, parseVars>>

\* the list comprehension over self.calls
ThreadBuildPruned(t) ==
    /\ th_pc[t] = "prune"
    /\ th_pruned' = [th_pruned EXCEPT ![t] = PruneCalls(calls, th_now[t])]
    /\ th_pc' = [th_pc EXCEPT ![t] = "assign"]
    /\ UNCHANGED <<rateVars, th_now, th_count>>
    /\ UNCHANGED <<tables, genVars, valVars, isoVars, retryVars, agentVars, correctVars, sanitizeVars, parseVars>>

\* self.calls = [...]
ThreadAssignPruned(t) ==
    /\ th_pc[t] = "assign"
    /\ calls' = th_pruned[t]
    /\ th_pc' = [th_pc EXCEPT ![t] = "count"]
    /\ UNCHANGED <<max_calls, clock, rl_last, rl_admitted, rl_checks>>
    /\ UNCHANGED <<th_now, th_pruned, th_count>>
    /\ UNCHANGED <<tables, genVars, valVars, isoVars, retryVars, agentVars, correctVars, sanitizeVars, parseVars>>

\* user_calls = sum(...)
ThreadCount(t) ==
    /\ th_pc[t] = "count"
    /\ th_count' = [th_count EXCEPT ![t] = UserCalls(calls, ThreadUser(t))]
    /\ th_pc' = [th_pc EXCEPT ![t] = "decide"]
    /\ UNCHANGED <<rateVars, th_now, th_pruned>>
    /\ UNCHANGED <<tables, genVars, valVars, isoVars, retryVars, agentVars, correctVars, sanitizeVars, parseVars>>

\* if user_calls >= self.max_calls: return False, ...
ThreadReject(t) ==
    /\ th_pc[t] = "decide"
    /\ th_count[t] >= max_calls
    /\ rl_last' = LastCall(ThreadUser(t), th_now[t], FALSE, <<>>)
    /\ th_pc' = [th_pc EXCEPT ![t] = "idle"]
    /\ UNCHANGED <<max_calls, calls, clock, rl_admitted, rl_checks>>
    /\ UNCHANGED <<th_now, th_pruned, th_count>>
    /\ UNCHANGED <<tables, genVars, valVars, isoVars, retryVars, agentVars, correctVars, sanitizeVars, parseVars>>

\* self.calls.append((user_id, current_time)); return True, None
ThreadAdmit(t) ==
    /\ th_pc[t] = "decide"
    /\ th_count[t] < max_calls
    /\ calls' = Append(calls, <<ThreadUser(t), th_now[t]>>)
    /\ rl_admitted' = Append(rl_admitted, <<ThreadUser(t), th_now[t]>>)
    /\ rl_last' = LastCall(ThreadUser(t), th_now[t], TRUE, <<>>)
    /\ th_pc' = [th_pc EXCEPT ![t] = "idle"]
    /\ UNCHANGED <<max_calls, clock, rl_checks>>
    /\ UNCHANGED <<th_now, th_pruned, th_count>>
    /\ UNCHANGED <<tables, genVars, valVars, isoVars, retryVars, agentVars, correctVars, sanitizeVars, parseVars>>

NextThreads ==
    \E t \in Threads :
        \/ ThreadEnter(t)
        \/ ThreadBuildPruned(t)
        \/ ThreadAssignPruned(t)
        \/ ThreadCount(t)
        \/ ThreadReject(t)
        \/ ThreadAdmit(t)

SpecThreads == InitThreads /\ [][NextThreads]_vars

\* C9: the prune, count and append steps of one call are not interleaved
\* with another call's; no admitted event is lost from the store; no
\* identity is admitted more than max_calls times within one window.
C9_SerializedAccess ==
    /\ Cardinality({t \in Threads : th_pc[t] # "idle"}) <= 1
    /\ \A u \in Users :
          /\ UserCalls(rl_admitted, u) <= max_calls
          /\ (\A t \in Threads : th_pc[t] = "idle") =>
                UserCalls(calls, u) = UserCalls(rl_admitted, u)


----------------------------------------------------------------------------
(* RetryableQueryExecutor.execute_with_retry against a backend that may    *)
(* succeed or fail with any message on every call (specification SpecRetry)*)

nAA == <<"a", "a">>
nAB == <<"a", "b">>
nAC == <<"a", "c">>
nBA == <<"b", "a">>
nBB == <<"b", "b">>
nBC == <<"b", "c">>
nCC == <<"c", "c">>

\* The catalog of the retry runs: table ab(aa, bc) and table bb(cc)
RetryCatalog == [t \in {nAB, nBB} |-> IF t = nAB THEN <<nAA, nBC>> ELSE <<nCC>>]

\* The texts handed to execute_with_retry
RetryQueries ==
    { <<Kw("SELECT"), Id(nAA), Kw("FROM"), Id(nAB)>>,
      <<Kw("SELECT"), Id(nAC), Sym(","), Id(nBB), Kw("FROM"), Id(nAB)>>,
      <<Kw("SELECT"), Id(nAA), Kw("FROM"), Id(nBA)>>,
      <<Kw("SELECT"), Id(nAA), Id(nBC), Kw("FROM"), Id(nAB)>>,
      <<Kw("SELECT"), Id(nAA), Kw("FROM"), Id(nAB), Kw("WHERE"), Id(nBC), Sym("="), DQ(nAC)>>,
      <<Kw("SELECT"), Kw("COUNT"), Sym("("), Id(nAA), Sym(")"), Kw("FROM"), Id(nAB)>>,
      <<Kw("SELECT"), Id(nAA), Sym(","), Kw("COUNT"), Sym("("), Id(nBC), Sym(")"),
        Kw("FROM"), Id(nAB)>>,
      <<Kw("SELECT"), Id(nAA), Sym(","), Kw("COUNT"), Sym("("), Id(nBC), Sym(")"),
        Kw("FROM"), Id(nAB), Kw("GROUP BY"), Id(nBC), Kw("LIMIT"), Num(1)>> }

\* The messages the backend may raise
RetryMessages ==
    {<<Frag(f, x)>> : f \in {"column_does_not_exist", "no_such_column", "table_not_found"},
                      x \in {nAC, nBB, nBA}}
    \cup {<<Frag(f, <<>>)>> : f \in {"syntax_error_near", "type_mismatch", "not_a_group_by",
                                      "connection_lost"}}
    \cup {<<Frag("syntax_error_near", <<>>), Frag("column_does_not_exist", nAC)>>}

MaxRetries == 3

LogFailed(attempt, msg) == [kind |-> "failed", n |-> attempt + 1, msg |-> msg, type |-> "", tenths |-> 0]
LogApplied(c) ==
    [kind |-> "applied", n |-> 0, msg |-> <<>>, type |-> c.correction_type,
     tenths |-> c.confidence_tenths]
\* A log entry that counts one correction too many
LogSucceeded_one_more(attempt) == [kind |-> "succeeded", n |-> attempt + 1, msg |-> <<>>, type |-> "", tenths |-> 0]

LogSucceeded(attempt) == [kind |-> "succeeded", n |-> attempt, msg |-> <<>>, type |-> "", tenths |-> 0]
LogUnable == [kind |-> "unable", n |-> 0, msg |-> <<>>, type |-> "", tenths |-> 0]

\* The (success, results, correction_log) tuple; the log is rx_log and
\* results is None or the number of rows
Returned(success, results) == <<[success |-> success, results |-> results]>>

\* The row counts of a result of the backend
RetryRowCounts == {0, 2}

InitRetry ==
    /\ tables = RetryCatalog
    /\ rx_max_retries \in 0..MaxRetries
    /\ rx_sql_query \in RetryQueries
    /\ rx_query = rx_sql_query
    /\ rx_attempt = 0
    /\ rx_log = <<>>
    /\ rx_calls = 0
    /\ rx_sent = NoSQL
    /\ rx_result = None
    /\ rx_pc = "loop"
    /\ IdleGen /\ IdleVal /\ IdleRate /\ IdleIso /\ IdleThreads /\ IdleAgent /\ IdleCorrect /\ IdleSanitize /\ IdleParse

\* A loop that runs once more than range(max_retries) does
LoopContinues_one_more(attempt, max_retries) == attempt <= max_retries

\* for attempt in range(max_retries): the body is entered
LoopContinues(attempt, max_retries) == attempt < max_retries

\* One iteration whose execute_query call returns results
ExecuteSucceeds ==
    /\ rx_pc = "loop"
    /\ LoopContinues(rx_attempt, rx_max_retries)
    /\ rx_calls' = rx_calls + 1
    /\ rx_sent' = rx_query
    /\ rx_log' = IF rx_attempt > 0 THEN Append(rx_log, LogSucceeded(rx_attempt)) ELSE rx_log
    /\ \E n \in RetryRowCounts : rx_result' = Returned(TRUE, <<n>>)
    /\ rx_pc' = "done"
    /\ UNCHANGED <<rx_max_retries, rx_sql_query, rx_query, rx_attempt>>
    /\ UNCHANGED <<tables, genVars, valVars, rateVars, isoVars, threadVars, agentVars, correctVars, sanitizeVars, parseVars>>

\* One iteration whose execute_query call raises, and whose correction is
\* taken up: the loop goes on with the corrected text
ExecuteFailsCorrected ==
    /\ rx_pc = "loop"
    /\ LoopContinues(rx_attempt, rx_max_retries)
    /\ \E msg \in RetryMessages :
          LET correction == correct_query(tables, rx_query, msg)
          IN  /\ correction # None
              /\ rx_attempt < rx_max_retries - 1
              /\ rx_log' = rx_log \o <<LogFailed(rx_attempt, msg), LogApplied(correction[1])>>
              /\ rx_query' = correction[1].corrected_sql
    /\ rx_calls' = rx_calls + 1
    /\ rx_sent' = rx_query
    /\ rx_attempt' = rx_attempt + 1
    /\ UNCHANGED <<rx_max_retries, rx_sql_query, rx_result, rx_pc>>
    /\ UNCHANGED <<tables, genVars, valVars, rateVars, isoVars, threadVars, agentVars, correctVars, sanitizeVars, parseVars>>

\* One iteration whose execute_query call raises, without a correction or
\* on the last attempt: the method returns failure
ExecuteFailsGivesUp ==
    /\ rx_pc = "loop"
    /\ LoopContinues(rx_attempt, rx_max_retries)
    /\ \E msg \in RetryMessages :
          /\ ~(correct_query(tables, rx_query, msg) # None /\ rx_attempt < rx_max_retries - 1)
          /\ rx_log' = rx_log \o <<LogFailed(rx_attempt, msg), LogUnable>>
    /\ rx_calls' = rx_calls + 1
    /\ rx_sent' = rx_query
    /\ rx_result' = Returned(FALSE, None)
    /\ rx_pc' = "done"
    /\ UNCHANGED <<rx_max_retries, rx_sql_query, rx_query, rx_attempt>>
    /\ UNCHANGED <<tables, genVars, valVars, rateVars, isoVars, threadVars, agentVars, correctVars, sanitizeVars, parseVars>>

\* The range is exhausted: the return after the loop
LoopExhausted ==
    /\ rx_pc = "loop"
    /\ ~LoopContinues(rx_attempt, rx_max_retries)
    /\ rx_result' = Returned(FALSE, None)
    /\ rx_pc' = "done"
    /\ UNCHANGED <<rx_max_retries, rx_sql_query, rx_query, rx_attempt, rx_log, rx_calls, rx_sent>>
    /\ UNCHANGED <<tables, genVars, valVars, rateVars, isoVars, threadVars, agentVars, correctVars, sanitizeVars, parseVars>>

NextRetry == ExecuteSucceeds \/ ExecuteFailsCorrected \/ ExecuteFailsGivesUp \/ LoopExhausted

SpecRetry == InitRetry /\ [][NextRetry]_vars


\* The text references only what the catalog holds: its FROM table is a
\* table of the catalog and every column name in it is a column of that table
ReferencesCatalogOnly(tbls, sql) ==
    /\ FromTable(sql) # None
    /\ FromTable(sql)[1] \in DOMAIN tbls
    /\ ReferencedColumns(sql) \subseteq Range(tbls[FromTable(sql)[1]])

\* C3: every text that execute_with_retry sends to the backend after the
\* corrector rewrote it (a second or later call, with a text other than the
\* one passed in) names only a table of the catalog and columns of that table.
C3_CorrectedSqlReferencesCatalog ==
    (rx_calls >= 2 /\ rx_sent # rx_sql_query) => ReferencesCatalogOnly(tables, rx_sent)

\* C10: whatever the backend answers and for every max_retries >= 0,
\* execute_with_retry calls the backend at most max_retries times and
\* terminates: while it has not returned it can take a step, and every step
\* either returns or is one more backend call of that bounded number.
C10_TerminatesWithinMaxRetries ==
    /\ [](rx_calls <= rx_max_retries)
    /\ [](rx_pc = "loop" => ENABLED NextRetry)
    /\ [][rx_pc' = "done" \/ rx_calls' = rx_calls + 1]_vars

\* A run that used its whole budget of three calls and returned
C10_Witness ==
    rx_pc = "done" /\ rx_max_retries >= 3 /\ rx_calls = rx_max_retries


----------------------------------------------------------------------------
(* DatabricksInsightAgent.process_query, one request (specification        *)
(* SpecAgent).  The collaborators answer as they like: the context         *)
(* retriever, the LLM service and the Databricks client may each raise.    *)

AgentUser == "u1"
AgentClock == 100
AgentMaxQueryLen == 12
AgentMaxCalls == 1

AgentCatalogs ==
    {[t \in dom |-> IF t = tabS THEN <<colA, colB>> ELSE <<colC>>] :
        dom \in {{tabS, tabU}, {tabU}}}

AgentPieces == {"show", "count", "top", "explain", "s", "u", " ", "delete", "limit 2"}
AgentQueries == SeqsUpTo(AgentPieces, MaxPieces)

\* What llm_service.generate_sql_from_query may return as SQL
AgentLlmSql ==
    { <<Kw("SELECT"), Id(colA), Kw("FROM"), Id(tabS)>>,
      <<Kw("DROP"), Id(tabS)>>,
      <<Kw("SELECT"), Id(colA), Sym(";"), Kw("DROP"), Id(tabS)>> }

\* The row counts of a result
AgentRowCounts == {0, 2}

\* The texts the context retriever may return
AgentContexts == {<<"">>, <<"doc">>}

InitAgent ==
    /\ tables \in AgentCatalogs
    /\ max_query_length = AgentMaxQueryLen
    /\ val_call = "idle" /\ user_query = <<>> /\ sql_text = <<>>
    /\ val_result = Verdict(TRUE, NoReason) /\ val_pc = "idle"
    /\ max_calls = AgentMaxCalls
    /\ calls \in {<<>>, <<<<AgentUser, AgentClock - 10>>>>}
    /\ clock = AgentClock
    /\ rl_last = NoCall /\ rl_admitted = <<>> /\ rl_checks = 0
    /\ ag_cfg \in [rate_limiter : BOOLEAN, llm_service : BOOLEAN, context_retriever : BOOLEAN]
    /\ ag_query \in AgentQueries
    /\ ag_pc = "validate"
    /\ ag_analysis = NoAnalysis
    /\ ag_context = None
    /\ ag_sql = NoSQL
    /\ ag_results = None
    /\ ag_response = None
    /\ ag_calls = NoCalls
    /\ IdleGen /\ IdleIso /\ IdleThreads /\ IdleRetry /\ IdleCorrect /\ IdleSanitize /\ IdleParse

Called(who) == [ag_calls EXCEPT ![who] = @ + 1]

\* Step 1: security validation
AgentSecurityCheck ==
    /\ ag_pc = "validate"
    /\ LET verdict == validate_query(ag_query, max_query_length)
       IN  IF SecurityRejects(verdict)
           THEN /\ ag_response' = <<AgentResponse(FALSE, "CLARIFICATION", NoSQL, None, None, {},
                                                  None, ErrorText("security", verdict.reason))>>
                /\ ag_pc' = "done"
           ELSE /\ ag_response' = ag_response
                /\ ag_pc' = IF ag_cfg.rate_limiter THEN "rate_limit" ELSE "analyze"
    /\ UNCHANGED <<ag_cfg, ag_query, ag_analysis, ag_context, ag_sql, ag_results, ag_calls>>
    /\ UNCHANGED <<tables, genVars, valVars, rateVars, isoVars, threadVars, retryVars, correctVars, sanitizeVars, parseVars>>

\* Step 2: rate limiting, if a limiter is configured
AgentRateLimit ==
    /\ ag_pc = "rate_limit"
    /\ LET r == check_rate_limit(calls, max_calls, AgentUser, clock)
       IN  /\ calls' = r.calls
           /\ IF ~r.allowed
              THEN /\ ag_response' =
                        <<AgentResponse(FALSE, "CLARIFICATION", NoSQL, None, None, {}, None,
                                        ErrorText("rate_limit",
                                                  Reason("rate_limit_exceeded", max_calls, "")))>>
                   /\ ag_pc' = "done"
              ELSE /\ ag_response' = ag_response
                   /\ ag_pc' = "analyze"
    /\ ag_calls' = Called("rate_limiter")
    /\ UNCHANGED <<ag_cfg, ag_query, ag_analysis, ag_context, ag_sql, ag_results>>
    /\ UNCHANGED <<max_calls, clock, rl_last, rl_admitted, rl_checks>>
    /\ UNCHANGED <<tables, genVars, valVars, isoVars, threadVars, retryVars, correctVars, sanitizeVars, parseVars>>

\* Steps 3 and 4: the analysis, and the clarification response
AgentAnalyze ==
    /\ ag_pc = "analyze"
    /\ LET analysis == analyze_query(tables, ag_query)
       IN  /\ ag_analysis' = analysis
           /\ IF analysis.query_type = "CLARIFICATION"
              THEN /\ ag_response' =
                        <<AgentResponse(FALSE, "CLARIFICATION", NoSQL, None, None, {},
                                        <<"which_table">>, None)>>
                   /\ ag_pc' = "done"
              ELSE /\ ag_response' = ag_response
                   /\ ag_pc' = IF analysis.query_type \in {"CONTEXT_ONLY", "BOTH"}
                               THEN "context" ELSE "generate"
    /\ UNCHANGED <<ag_cfg, ag_query, ag_context, ag_sql, ag_results, ag_calls>>
    /\ UNCHANGED <<tables, genVars, valVars, rateVars, isoVars, threadVars, retryVars, correctVars, sanitizeVars, parseVars>>

\* Step 5: get_context returns a text
AgentContextReturns ==
    /\ ag_pc = "context"
    /\ ag_cfg.context_retriever
    /\ ag_context' \in AgentContexts
    /\ ag_calls' = Called("context_retriever")
    /\ ag_pc' = IF ag_analysis.query_type \in {"SQL_ONLY", "BOTH"} THEN "generate" ELSE "insights"
    /\ UNCHANGED <<ag_cfg, ag_query, ag_analysis, ag_sql, ag_results, ag_response>>
    /\ UNCHANGED <<tables, genVars, valVars, rateVars, isoVars, threadVars, retryVars, correctVars, sanitizeVars, parseVars>>

\* Step 5: get_context raises, or context_retriever is None and the
\* attribute access raises; nothing catches it, process_query raises
AgentContextRaises ==
    /\ ag_pc = "context"
    /\ ag_calls' = IF ag_cfg.context_retriever THEN Called("context_retriever") ELSE ag_calls
    /\ ag_pc' = "raised"
    /\ UNCHANGED <<ag_cfg, ag_query, ag_analysis, ag_context, ag_sql, ag_results, ag_response>>
    /\ UNCHANGED <<tables, genVars, valVars, rateVars, isoVars, threadVars, retryVars, correctVars, sanitizeVars, parseVars>>

\* A step 6 that sends the generated text to the backend unvalidated
AfterSql_skips_validation(sql) == IF sql # NoSQL THEN "execute" ELSE "insights"

\* After _generate_safe_sql: if sql_query: validate, else on to the insights
AfterSql(sql) == IF sql # NoSQL THEN "validate_sql" ELSE "insights"

\* Step 6, _generate_safe_sql without a target table: None
AgentNoTargetTable ==
    /\ ag_pc = "generate"
    /\ ag_analysis.target_tables = <<>>
    /\ ag_sql' = NoSQL
    /\ ag_pc' = AfterSql(NoSQL)
    /\ UNCHANGED <<ag_cfg, ag_query, ag_analysis, ag_context, ag_results, ag_response, ag_calls>>
    /\ UNCHANGED <<tables, genVars, valVars, rateVars, isoVars, threadVars, retryVars, correctVars, sanitizeVars, parseVars>>

\* Step 6, _generate_safe_sql: the LLM service returns an SQL text
AgentLlmGeneratesSql ==
    /\ ag_pc = "generate"
    /\ ag_analysis.target_tables # <<>>
    /\ ag_cfg.llm_service
    /\ \E sql \in AgentLlmSql :
          /\ ag_sql' = sql
          /\ ag_pc' = AfterSql(sql)
    /\ ag_calls' = Called("llm_service")
    /\ UNCHANGED <<ag_cfg, ag_query, ag_analysis, ag_context, ag_results, ag_response>>
    /\ UNCHANGED <<tables, genVars, valVars, rateVars, isoVars, threadVars, retryVars, correctVars, sanitizeVars, parseVars>>

\* Step 6, _generate_safe_sql: no LLM service, or it raises or returns
\* nothing; parse_query_intent and generate_sql make the text
AgentRuleBasedSql ==
    /\ ag_pc = "generate"
    /\ ag_analysis.target_tables # <<>>
    /\ LET sql == generate_sql(tables, parse_query_intent(ag_query, ag_analysis.target_tables[1]))
       IN  /\ ag_sql' = sql
           /\ ag_pc' = AfterSql(sql)
    /\ ag_calls' = [ag_calls EXCEPT !.sql_generator = @ + 1,
                                    !.llm_service = IF ag_cfg.llm_service THEN @ + 1 ELSE @]
    /\ UNCHANGED <<ag_cfg, ag_query, ag_analysis, ag_context, ag_results, ag_response>>
    /\ UNCHANGED <<tables, genVars, valVars, rateVars, isoVars, threadVars, retryVars, correctVars, sanitizeVars, parseVars>>

\* Step 6: validate_sql on the generated text
AgentValidateSql ==
    /\ ag_pc = "validate_sql"
    /\ LET verdict == validate_sql(ag_sql)
       IN  IF ~verdict.ok
           THEN /\ ag_response' =
                     <<AgentResponse(FALSE, ag_analysis.query_type, ag_sql, None, ag_context, {},
                                     None, ErrorText("sql_validation", verdict.reason))>>
                /\ ag_pc' = "done"
           ELSE /\ ag_response' = ag_response
                /\ ag_pc' = "execute"
    /\ ag_calls' = Called("validate_sql")
    /\ UNCHANGED <<ag_cfg, ag_query, ag_analysis, ag_context, ag_sql, ag_results>>
    /\ UNCHANGED <<tables, genVars, valVars, rateVars, isoVars, threadVars, retryVars, correctVars, sanitizeVars, parseVars>>

\* Step 6: databricks_client.execute_query returns rows
AgentExecuteReturns ==
    /\ ag_pc = "execute"
    /\ \E n \in AgentRowCounts : ag_results' = <<n>>
    /\ ag_calls' = Called("databricks_client")
    /\ ag_pc' = "insights"
    /\ UNCHANGED <<ag_cfg, ag_query, ag_analysis, ag_context, ag_sql, ag_response>>
    /\ UNCHANGED <<tables, genVars, valVars, rateVars, isoVars, threadVars, retryVars, correctVars, sanitizeVars, parseVars>>

\* Step 6: databricks_client.execute_query raises
AgentExecuteRaises ==
    /\ ag_pc = "execute"
    /\ ag_response' =
          <<AgentResponse(FALSE, ag_analysis.query_type, ag_sql, None, ag_context, {}, None,
                          ErrorText("execution", Reason("query_execution_failed", 0, "")))>>
    /\ ag_calls' = Called("databricks_client")
    /\ ag_pc' = "done"
    /\ UNCHANGED <<ag_cfg, ag_query, ag_analysis, ag_context, ag_sql, ag_results>>
    /\ UNCHANGED <<tables, genVars, valVars, rateVars, isoVars, threadVars, retryVars, correctVars, sanitizeVars, parseVars>>

\* A final response that reports success and an error at once
Succeeded_with_error(insights) ==
    <<AgentResponse(TRUE, ag_analysis.query_type, ag_sql, ag_results, ag_context, insights,
                    None, ErrorText("execution", Reason("query_execution_failed", 0, "")))>>

\* The response after step 7
Succeeded(insights) ==
    <<AgentResponse(TRUE, ag_analysis.query_type, ag_sql, ag_results, ag_context, insights,
                    None, None)>>

\* Step 7: the LLM service returns the insights, an empty text or not
AgentLlmInsights ==
    /\ ag_pc = "insights"
    /\ ag_cfg.llm_service
    /\ \E insights \in {{}, {"llm"}} : ag_response' = Succeeded(insights)
    /\ ag_calls' = Called("llm_service")
    /\ ag_pc' = "done"
    /\ UNCHANGED <<ag_cfg, ag_query, ag_analysis, ag_context, ag_sql, ag_results>>
    /\ UNCHANGED <<tables, genVars, valVars, rateVars, isoVars, threadVars, retryVars, correctVars, sanitizeVars, parseVars>>

\* Step 7: no LLM service, or it raises; the rule-based insights
AgentRuleBasedInsights ==
    /\ ag_pc = "insights"
    /\ ag_response' = Succeeded(rule_based_insights(ag_results, ag_context))
    /\ ag_calls' = [ag_calls EXCEPT !.llm_service = IF ag_cfg.llm_service THEN @ + 1 ELSE @]
    /\ ag_pc' = "done"
    /\ UNCHANGED <<ag_cfg, ag_query, ag_analysis, ag_context, ag_sql, ag_results>>
    /\ UNCHANGED <<tables, genVars, valVars, rateVars, isoVars, threadVars, retryVars, correctVars, sanitizeVars, parseVars>>

NextAgent ==
    \/ AgentSecurityCheck
    \/ AgentRateLimit
    \/ AgentAnalyze
    \/ AgentContextReturns
    \/ AgentContextRaises
    \/ AgentNoTargetTable
    \/ AgentLlmGeneratesSql
    \/ AgentRuleBasedSql
    \/ AgentValidateSql
    \/ AgentExecuteReturns
    \/ AgentExecuteRaises
    \/ AgentLlmInsights
    \/ AgentRuleBasedInsights

SpecAgent == InitAgent /\ [][NextAgent]_vars

\* validate_query rejects the request text
InputRejected == ~validate_query(ag_query, max_query_length).ok

\* C2: a request text that validate_query rejects ends in the error response
\* of the security step, and for that request the rate limiter, the context
\* retriever, the SQL generator (rule-based or LLM), validate_sql and the
\* Databricks client are never called, and the limiter's store is untouched.
C2_RejectedInputNeverReachesExecution ==
    InputRejected =>
        /\ ag_calls = NoCalls
        /\ ag_sql = NoSQL /\ ag_results = None
        /\ ag_pc \in {"validate", "done"}
        /\ ag_pc = "done" =>
              /\ ag_response # None
              /\ ~ag_response[1].success
              /\ ag_response[1].error =
                    ErrorText("security", validate_query(ag_query, max_query_length).reason)
              /\ ag_response[1].clarification_needed = None
              /\ ag_response[1].sql_query = NoSQL
              /\ ag_response[1].results = None

\* A request with a forbidden keyword, sent to an agent that has a rate
\* limiter and an LLM service, was answered
C2_Witness ==
    /\ InputRejected
    /\ validate_query(ag_query, max_query_length).reason.kind = "forbidden_sql_keyword"
    /\ ag_cfg.rate_limiter /\ ag_cfg.llm_service
    /\ TableInQuery(tabU, ag_query)
    /\ ag_pc = "done"


----------------------------------------------------------------------------
(* The audit log of execute_with_retry                                     *)

\* The number of "attempt failed" entries of a log
NumFailed(log) == Cardinality({i \in DOMAIN log : log[i].kind = "failed"})

NamedCategories ==
    {"column_not_found", "table_not_found", "syntax_error", "type_mismatch", "aggregate_error"}

\* The run is over, max_retries was at least 2, the first call of the
\* backend failed with a message of a named category and no later call failed
FailedOnceClassified ==
    /\ rx_pc = "done"
    /\ rx_max_retries >= 2
    /\ NumFailed(rx_log) = 1
    /\ rx_log[1].kind = "failed"
    /\ analyze_error(rx_log[1].msg) \in NamedCategories

\* Success with rows, a log of two entries or more, the last one stating
\* success after one correction
SucceededAfterOneCorrection ==
    /\ rx_result # None
    /\ rx_result[1].success
    /\ rx_result[1].results # None
    /\ Len(rx_log) >= 2
    /\ rx_log[Len(rx_log)].kind = "succeeded"
    /\ rx_log[Len(rx_log)].n = 1

\* C11 (as stated): with max_retries >= 2, a first failure of any of the five
\* named categories and a backend that does not fail again, the method
\* returns success with rows, a log of length >= 2 and a last entry stating
\* success after one correction.
C11_FailOnceThenSucceed ==
    FailedOnceClassified => SucceededAfterOneCorrection

\* C11 (amended): the same, for a first failure that the corrector answers
\* with a correction.
C11_CorrectedOnceThenSucceed ==
    (FailedOnceClassified /\ correct_query(tables, rx_sql_query, rx_log[1].msg) # None)
        => SucceededAfterOneCorrection

\* A run that failed once on an unknown column, was rewritten and succeeded
C11_Witness ==
    /\ FailedOnceClassified
    /\ analyze_error(rx_log[1].msg) = "column_not_found"
    /\ rx_sent # rx_sql_query
    /\ SucceededAfterOneCorrection
    /\ Len(rx_log) = 3


\* The run returned, every execution it made raised, and every error it
\* raised matches no pattern of the classifier
AlwaysFailedUnclassified ==
    /\ rx_pc = "done"
    /\ rx_result # None
    /\ ~rx_result[1].success
    /\ NumFailed(rx_log) = rx_calls
    /\ \A i \in DOMAIN rx_log :
          rx_log[i].kind = "failed" => analyze_error(rx_log[i].msg) = "unknown"

\* C12 as stated: given a backend that fails every execution with an error
\* of category unknown, execute_with_retry returns failure after exactly
\* max_retries executions.
C12_UnclassifiedUsesWholeBudget ==
    AlwaysFailedUnclassified => rx_calls = rx_max_retries

\* C12: given a backend that fails every execution with an error of category
\* unknown, execute_with_retry returns failure without rows after the first
\* execution (after none when max_retries is 0): the corrector has no
\* correction for such an error, and the run ends there.
C12_UnclassifiedFailsAfterFirst ==
    AlwaysFailedUnclassified =>
        /\ rx_calls = Min2(1, rx_max_retries)
        /\ rx_result[1].results = None
        /\ rx_sent \in {NoSQL, rx_sql_query}

\* A run with a budget of three that ended after one unclassified failure
C12_Witness ==
    /\ AlwaysFailedUnclassified
    /\ rx_max_retries = 3
    /\ rx_calls = 1
    /\ rx_log = <<LogFailed(0, <<Frag("connection_lost", <<>>)>>), LogUnable>>


\* The entries of a kind, in the order of the log
EntriesOf(kind, log) == SelectSeq(log, LAMBDA e : e.kind = kind)

\* One failure entry for each of the calls made, in attempt order
OneFailurePerAttempt(log, made) ==
    /\ Len(EntriesOf("failed", log)) = made
    /\ \A i \in 1..made : EntriesOf("failed", log)[i].n = i

\* C13: whenever execute_with_retry returns failure, for every max_retries
\* from 0 up, there are no rows, the log holds one failure entry for every
\* execution made, in attempt order, and its last entry is the "unable to
\* correct" entry, which occurs nowhere else.
C13_FailureLogComplete ==
    (rx_pc = "done" /\ rx_result # None /\ ~rx_result[1].success) =>
        /\ rx_result[1].results = None
        /\ OneFailurePerAttempt(rx_log, rx_calls)
        /\ Len(rx_log) >= 1
        /\ rx_log[Len(rx_log)] = LogUnable
        /\ Len(EntriesOf("unable", rx_log)) = 1


\* The three outcomes of a response
IsSuccess(r) == r.success /\ r.error = None /\ r.clarification_needed = None
IsClarification(r) == r.clarification_needed # None /\ ~r.success /\ r.error = None
IsError(r) == r.error # None /\ ~r.success /\ r.clarification_needed = None

\* C14: every AgentResponse that process_query returns, on every path, is
\* exactly one of: a success (success set, no error, no clarification), a
\* clarification (clarification set, success unset, no error) or an error
\* (error set, success unset, no clarification); and process_query returns
\* a response exactly when it has returned.
C14_ExactlyOneOutcome ==
    /\ ag_pc = "done" <=> ag_response # None
    /\ ag_response # None =>
          LET r == ag_response[1]
          IN  /\ Cardinality({o \in {"success", "clarification", "error"} :
                      \/ o = "success" /\ IsSuccess(r)
                      \/ o = "clarification" /\ IsClarification(r)
                      \/ o = "error" /\ IsError(r)}) = 1
              /\ Cardinality({o \in {"success", "clarification", "error"} :
                      \/ o = "success" /\ r.success
                      \/ o = "clarification" /\ r.clarification_needed # None
                      \/ o = "error" /\ r.error # None}) = 1

\* A request that names no table was answered with the clarification
C14_Witness ==
    /\ ag_pc = "done"
    /\ ag_response # None
    /\ IsClarification(ag_response[1])
    /\ ag_analysis.query_type = "CLARIFICATION"
    /\ ag_response[1].sql_query = NoSQL


\* validate_sql ran on the generated text and turned it down
GeneratedSqlRejected == ag_calls.validate_sql >= 1 /\ ~validate_sql(ag_sql).ok

\* C15: within one request the backend is called only with a text that
\* validate_sql accepted before, be it from the LLM service or from the
\* rule-based generator; a text that validate_sql rejects ends the request
\* in an error response that carries that text, without a backend call.
C15_BackendOnlyAfterValidation ==
    /\ [](ag_calls.databricks_client >= 1 =>
              /\ ag_calls.validate_sql = 1
              /\ ag_calls.databricks_client = 1
              /\ ag_sql # NoSQL
              /\ validate_sql(ag_sql).ok)
    /\ [](GeneratedSqlRejected =>
              /\ ag_calls.databricks_client = 0
              /\ ag_results = None
              /\ ag_pc = "done"
              /\ ag_response # None
              /\ IsError(ag_response[1])
              /\ ag_response[1].error = ErrorText("sql_validation", validate_sql(ag_sql).reason)
              /\ ag_response[1].sql_query = ag_sql
              /\ ag_response[1].results = None)
    /\ [][ag_calls.databricks_client' # ag_calls.databricks_client =>
              /\ ag_pc = "execute"
              /\ ag_calls.validate_sql = 1
              /\ validate_sql(ag_sql).ok
              /\ ag_sql' = ag_sql]_vars

\* The LLM service gave a DROP statement; the request ended in the
\* validation error carrying it and the backend was not called
C15_Witness ==
    /\ GeneratedSqlRejected
    /\ ag_pc = "done"
    /\ ag_calls.llm_service = 1
    /\ ag_calls.databricks_client = 0
    /\ ag_response[1].sql_query = <<Kw("DROP"), Id(tabS)>>


\* The request was analysed as one that calls for SQL, _generate_safe_sql
\* ran and gave no SQL, and process_query returned
NoSqlForSqlRequest ==
    /\ ag_pc = "done"
    /\ ag_analysis.query_type \in {"SQL_ONLY", "BOTH"}
    /\ ag_sql = NoSQL

\* C16: when the analysed query type calls for SQL (SQL_ONLY or BOTH) and
\* SQL generation yields no SQL, process_query does not return a success
\* response for that request.
C16_MissingSqlIsRejection ==
    NoSqlForSqlRequest => (ag_response # None /\ ~ag_response[1].success)


\* C17: a failure of the context provider is never fatal: when the query
\* type calls for retrieval and the provider raises or is not configured,
\* process_query goes on without context and returns an AgentResponse; it
\* never ends by raising the exception to its caller.
C17_ContextFailureNotFatal ==
    /\ ag_pc # "raised"
    /\ (ag_pc = "done" /\ ag_analysis.query_type \in {"CONTEXT_ONLY", "BOTH"}
           /\ ~ag_cfg.context_retriever) => ag_response # None


\* _generate_safe_sql has run for a request with a target table
SqlGenerationRan ==
    /\ ag_analysis.query_type \in {"SQL_ONLY", "BOTH"}
    /\ ag_analysis.target_tables # <<>>
    /\ ag_pc \in {"validate_sql", "execute", "insights", "done"}

\* C18: whenever the LLM service raises or returns an empty result, for the
\* SQL and for the insights alike, the rule-based path gives the outcome, and
\* without an LLM service the rule-based path is taken: a missing SQL text
\* is the rule-based generator's answer, never the LLM's, and the insights
\* of a success response are never the LLM's empty text.
C18_RuleBasedFallbackAlways ==
    /\ (SqlGenerationRan /\ ag_sql = NoSQL) => ag_calls.sql_generator = 1
    /\ (SqlGenerationRan /\ ~ag_cfg.llm_service) =>
           /\ ag_calls.sql_generator = 1
           /\ ag_calls.llm_service = 0
    /\ (ag_response # None /\ ag_response[1].success) =>
           /\ ag_response[1].insights # {}
           /\ ~ag_cfg.llm_service =>
                  ag_response[1].insights = rule_based_insights(ag_results, ag_context)


\* process_query answered with the "Query execution failed" error
ExecutionErrorReturned ==
    /\ ag_response # None
    /\ ag_response[1].error = ErrorText("execution", Reason("query_execution_failed", 0, ""))

\* C19: process_query never surfaces a failed backend execution directly:
\* the execution error response is returned only after execute_with_retry
\* ran on the request's SQL and returned failure (no correction possible,
\* or the attempts used up).
C19_ExecutionErrorOnlyAfterRetry ==
    ExecutionErrorReturned =>
        /\ rx_pc = "done"
        /\ rx_sql_query = ag_sql
        /\ rx_result = Returned(FALSE, None)
        /\ Len(rx_log) >= 1


----------------------------------------------------------------------------
(* SQLCorrector.correct_query as a function of its arguments               *)

nA == <<"a">>
nC == <<"c">>
nAAB == <<"a", "a", "b">>
nAAC == <<"a", "a", "c">>
nBBC == <<"b", "b", "c">>

\* The column lists of the table ab
CorrectColumnLists == {<<nAA, nBC>>, <<nBC, nAA>>, <<nAAB>>, <<nC, nAC>>}

CorrectCatalogs == {[t \in {nAB} |-> cols] : cols \in CorrectColumnLists}

\* The identifiers that a query or an error message names
CorrectWords == {nA, nC, nAA, nAC, nBA, nCC, nAAC, nBBC}

CorrectQueries ==
    UNION {{ <<Kw("SELECT"), Id(w), Kw("FROM"), Id(nAB)>>,
             <<Kw("SELECT"), Id(w), Sym(","), Id(nBC), Kw("FROM"), Id(nAB)>>,
             <<Kw("SELECT"), Id(w), Kw("FROM"), Id(nBB)>>,
             <<Kw("SELECT"), Id(w)>> } : w \in CorrectWords}

\* The forms of a fragment of an error message
MessageForms ==
    {"column_does_not_exist", "unknown_column", "no_such_column", "table_not_found",
     "no_such_table", "syntax_error_near", "type_mismatch", "not_a_group_by",
     "connection_lost"}

CorrectMessages ==
    {<<Frag(f, w)>> : f \in {"column_does_not_exist", "unknown_column", "no_such_column"},
                      w \in CorrectWords}
    \cup RetryMessages
    \cup {<<Frag(f, nAC), Frag(g, nAC)>> : f \in MessageForms, g \in MessageForms}
    \cup {<<>>}

InitCorrect ==
    /\ tables \in CorrectCatalogs
    /\ cq_sql_query \in CorrectQueries
    /\ cq_error_message \in CorrectMessages
    /\ cq_error_type = ""
    /\ cq_correction = None
    /\ cq_pc = "call"
    /\ IdleGen /\ IdleVal /\ IdleRate /\ IdleIso /\ IdleThreads /\ IdleRetry /\ IdleAgent /\ IdleSanitize /\ IdleParse

\* corrector.correct_query(sql_query, error_message)
CorrectQuery ==
    /\ cq_pc = "call"
    /\ cq_error_type' = analyze_error(cq_error_message)
    /\ cq_correction' = correct_query(tables, cq_sql_query, cq_error_message)
    /\ cq_pc' = "done"
    /\ UNCHANGED <<cq_sql_query, cq_error_message>>
    /\ UNCHANGED <<tables, genVars, valVars, rateVars, isoVars, threadVars, retryVars, agentVars, sanitizeVars, parseVars>>

NextCorrect == CorrectQuery

SpecCorrect == InitCorrect /\ [][NextCorrect]_vars

\* The names written in a text
NameTokens(sql) == {sql[i].s : i \in {j \in DOMAIN sql : IsNameToken(sql[j])}}

\* The least Levenshtein distance between a word and the columns of a list
MinDistance(w, cols) ==
    CHOOSE d \in 0..(Len(w) + 3) :
        /\ \E i \in DOMAIN cols : levenshtein_distance(w, cols[i]) = d
        /\ \A i \in DOMAIN cols : levenshtein_distance(w, cols[i]) >= d

\* correct_query ran on a column_not_found error whose message names the
\* identifier w, for a text that names w and whose FROM table has columns
ColumnErrorCorrected ==
    /\ cq_pc = "done"
    /\ analyze_error(cq_error_message) = "column_not_found"
    /\ ExtractColumn(cq_error_message) # None
    /\ matched_table_columns(tables, cq_sql_query) # <<>>
    /\ ExtractColumn(cq_error_message)[1] \in NameTokens(cq_sql_query)

\* C20: for a column_not_found error with offending identifier w and the
\* table T of the FROM clause, a Correction is returned if and only if the
\* least Levenshtein distance between w and the columns of T is at most
\* len(w) div 2; the Correction has confidence 0.8 and its corrected SQL
\* names a column of that least distance and no longer names w.
C20_ColumnCorrectionByDistance ==
    ColumnErrorCorrected =>
        LET w == ExtractColumn(cq_error_message)[1]
            cols == matched_table_columns(tables, cq_sql_query)
        IN  /\ cq_correction # None <=> MinDistance(w, cols) <= Len(w) \div 2
            /\ cq_correction # None =>
                  /\ cq_correction[1].confidence_tenths = 8
                  /\ \E i \in DOMAIN cols :
                        /\ levenshtein_distance(w, cols[i]) = MinDistance(w, cols)
                        /\ cols[i] \in NameTokens(cq_correction[1].corrected_sql)
                  /\ w \notin NameTokens(cq_correction[1].corrected_sql)


\* The category whose patterns match a fragment of a form (none for the
\* text of a lost connection), and the fixed order of the categories
FormCategory(f) ==
    CASE f \in {"column_does_not_exist", "unknown_column", "no_such_column"} -> "column_not_found"
      [] f \in {"table_not_found", "no_such_table"} -> "table_not_found"
      [] f = "syntax_error_near" -> "syntax_error"
      [] f = "type_mismatch" -> "type_mismatch"
      [] f = "not_a_group_by" -> "aggregate_error"
      [] OTHER -> "unknown"
CategoryOrder == <<"column_not_found", "table_not_found", "syntax_error", "type_mismatch", "aggregate_error">>
CategoryRank(c) == CHOOSE i \in DOMAIN CategoryOrder : CategoryOrder[i] = c

\* The categories of which some pattern matches the message
MatchingCategories(msg) == {FormCategory(msg[j].form) : j \in DOMAIN msg} \ {"unknown"}

ClauseOrder == <<"SELECT", "FROM", "WHERE", "GROUP BY", "ORDER BY", "LIMIT">>
IsClauseKeyword(tok) == tok.k = "kw" /\ tok.w \in Range(ClauseOrder)
ClauseRank(w) == CHOOSE i \in DOMAIN ClauseOrder : ClauseOrder[i] = w

\* The clause keywords of a text, in the order they are written
ClausesOf(sql) ==
    LET kws == SelectSeq(sql, IsClauseKeyword)
    IN  [i \in DOMAIN kws |-> kws[i].w]

HasClause(sql, w) == w \in Range(ClausesOf(sql))

\* The tokens between SELECT and FROM
SelectList(sql) ==
    LET f == CHOOSE i \in DOMAIN sql : sql[i] = Kw("FROM") /\ \A j \in 1..(i - 1) : sql[j] # Kw("FROM")
    IN  SubSeq(sql, 2, f - 1)

----------------------------------------------------------------------------
(* SecurityValidator.sanitize_input (security.py)                          *)

\* The one character \x00, and the characters str.split() separates at
NullByte == "NUL"
Whitespace == {" ", "\t"}

\* user_input.replace('\x00', '')
RemoveNullBytes(s) == SelectSeq(s, LAMBDA c : c # NullByte)

RECURSIVE SplitWords(_, _)
\* str.split(): the maximal runs of characters other than whitespace;
\* word is the run being read
SplitWords(s, word) ==
    IF Len(s) = 0 THEN (IF word = <<>> THEN <<>> ELSE <<word>>)
    ELSE IF Head(s) \in Whitespace
         THEN (IF word = <<>> THEN <<>> ELSE <<word>>) \o SplitWords(Tail(s), <<>>)
         ELSE SplitWords(Tail(s), Append(word, Head(s)))

RECURSIVE JoinWords(_)
\* ' '.join(words)
JoinWords(words) ==
    IF Len(words) = 0 THEN <<>>
    ELSE IF Len(words) = 1 THEN words[1]
    ELSE words[1] \o <<" ">> \o JoinWords(Tail(words))

\* sanitized[:max_query_length], for a length of 0 or more
Truncate(s, n) == SubSeq(s, 1, Min2(Len(s), n))

\* A sanitizer that collapses the whitespace before it removes null bytes
sanitize_input_nul_last(user_input, max_len) ==
    Truncate(RemoveNullBytes(JoinWords(SplitWords(user_input, <<>>))), max_len)

\* SecurityValidator.sanitize_input
sanitize_input(user_input, max_len) ==
    Truncate(JoinWords(SplitWords(RemoveNullBytes(user_input), <<>>)), max_len)

MaxInputLen == 6
MaxSanitizeLen == 4
SanitizeChars == {"a", " ", "\t", NullByte}
SanitizeInputs == SeqsUpTo(SanitizeChars, MaxInputLen)

InitSanitize ==
    /\ tables = <<>>
    /\ max_query_length \in 0..MaxSanitizeLen
    /\ val_call = "sanitize_input"
    /\ user_query = <<>> /\ sql_text = <<>>
    /\ val_result = Verdict(TRUE, NoReason)
    /\ val_pc = "idle"
    /\ san_input \in SanitizeInputs
    /\ san_output = <<>>
    /\ san_again = <<>>
    /\ san_pc = "call"
    /\ IdleGen /\ IdleRate /\ IdleIso /\ IdleThreads /\ IdleRetry /\ IdleAgent /\ IdleCorrect /\ IdleParse

\* validator.sanitize_input(user_input)
Sanitize ==
    /\ san_pc = "call"
    /\ san_output' = sanitize_input(san_input, max_query_length)
    /\ san_pc' = "returned"
    /\ UNCHANGED <<san_input, san_again>>
    /\ UNCHANGED <<tables, genVars, valVars, rateVars, isoVars, threadVars, retryVars, agentVars, correctVars, parseVars>>

\* validator.sanitize_input(sanitized): a second call, on the first result
SanitizeAgain ==
    /\ san_pc = "returned"
    /\ san_again' = sanitize_input(san_output, max_query_length)
    /\ san_pc' = "again"
    /\ UNCHANGED <<san_input, san_output>>
    /\ UNCHANGED <<tables, genVars, valVars, rateVars, isoVars, threadVars, retryVars, agentVars, correctVars, parseVars>>

NextSanitize == Sanitize \/ SanitizeAgain

SpecSanitize == InitSanitize /\ [][NextSanitize]_vars

\* Two neighbouring whitespace characters
HasWhitespaceRun(s) == \E i \in 1..(Len(s) - 1) : s[i] \in Whitespace /\ s[i + 1] \in Whitespace

\* C23: for every input text (and every max_query_length of 0 or more)
\* sanitize_input returns a text without a null byte, without a run of two
\* or more whitespace characters and of at most max_query_length characters,
\* and the call changes nothing of the validator's state.
C23_SanitizedText ==
    /\ [](san_pc \in {"returned", "again"} =>
              /\ NullByte \notin Range(san_output)
              /\ ~HasWhitespaceRun(san_output)
              /\ Len(san_output) <= max_query_length)
    /\ [][valVars' = valVars /\ san_input' = san_input]_vars

\* A text with a null byte between two blanks, longer than the limit, was
\* sanitized
C23_Witness ==
    /\ san_pc = "returned"
    /\ san_input = <<"a", " ", NullByte, " ", "a", "a">>
    /\ max_query_length = 3
    /\ san_output = <<"a", " ", "a">>

\* C30: sanitize_input is idempotent: applied to its own result it returns
\* that result, for every input text and every max_query_length, also when
\* the truncation cut the collapsed text.
C30_SanitizeIdempotent ==
    san_pc = "again" => san_again = san_output


----------------------------------------------------------------------------
(* SQLGenerator.parse_query_intent as a function of the request text       *)

\* The table name parse_query_intent detects: the first table of the
\* catalog whose name the text holds, None (<<>>) if there is none
detected_table(tbls, q) ==
    LET found == SelectSeq(get_all_tables(tbls), LAMBDA n : TableInQuery(n, q))
    IN  IF found = <<>> THEN <<>> ELSE found[1]

ParsePieces == {"count", "Count", "total", "sum", "average", "avg", "show", "top", " ", "s"}
ParseQueries == SeqsUpTo(ParsePieces, MaxPieces)

InitParse ==
    /\ tables \in AgentCatalogs
    /\ pq_user_query \in ParseQueries
    /\ pq_intent = NoIntent
    /\ pq_pc = "call"
    /\ IdleGen /\ IdleVal /\ IdleRate /\ IdleIso /\ IdleThreads /\ IdleRetry /\ IdleAgent
    /\ IdleCorrect /\ IdleSanitize

\* sql_generator.parse_query_intent(user_query)
ParseQueryIntent ==
    /\ pq_pc = "call"
    /\ pq_intent' = parse_query_intent(pq_user_query, detected_table(tables, pq_user_query))
    /\ pq_pc' = "returned"
    /\ UNCHANGED pq_user_query
    /\ UNCHANGED <<tables, genVars, valVars, rateVars, isoVars, threadVars, retryVars, agentVars, correctVars, sanitizeVars>>

NextParse == ParseQueryIntent

SpecParse == InitParse /\ [][NextParse]_vars

\* The words that the text names for an aggregation
AggregationWords == {"count", "total", "sum", "average", "avg"}
NamesAggregation(q) == \E i \in DOMAIN q : PieceWords(q[i]) \cap AggregationWords # {}

\* C24: for every request text that holds one of the words count, total,
\* sum, average, avg (in any case) the intent of parse_query_intent has the
\* COUNT(*) default among its aggregations; for a text with none of these
\* words the intent has no aggregation.
C24_AggregationWordGivesCount ==
    pq_pc = "returned" =>
        IF NamesAggregation(pq_user_query)
        THEN <<star, "COUNT">> \in Range(pq_intent.aggregations)
        ELSE pq_intent.aggregations = <<>>


\* The message of the failure that this step logs (the step is a backend
\* call that raised)
StepFailed == rx_calls' = rx_calls + 1 /\ Len(rx_log') > Len(rx_log) /\ rx_log'[Len(rx_log) + 1].kind = "failed"
StepMessage == rx_log'[Len(rx_log) + 1].msg

\* execute_with_retry returns failure in this step
StepReturnsFailure ==
    /\ rx_pc' = "done"
    /\ rx_result' # None
    /\ ~rx_result'[1].success
    /\ rx_result'[1].results = None
    /\ rx_log'[Len(rx_log')] = LogUnable

\* C25: when the corrector has no correction for the error of a failed
\* attempt, which is always so for the categories type_mismatch and unknown,
\* execute_with_retry returns failure in that very step, however many
\* attempts remain, and once it has returned the backend is not called again.
C25_NoCorrectionIsTerminal ==
    /\ [][(StepFailed /\ correct_query(tables, rx_query, StepMessage) = None)
              => StepReturnsFailure]_vars
    /\ [][(StepFailed /\ analyze_error(StepMessage) \in {"type_mismatch", "unknown"})
              => StepReturnsFailure]_vars
    /\ [][rx_pc = "done" => rx_calls' = rx_calls]_vars
    /\ [](rx_pc = "done" => ~ENABLED NextRetry)

\* A run with a budget of three that ended after one type mismatch
C25_Witness ==
    /\ rx_pc = "done"
    /\ rx_max_retries = 3
    /\ rx_calls = 1
    /\ rx_log = <<LogFailed(0, <<Frag("type_mismatch", <<>>)>>), LogUnable>>
    /\ rx_result = Returned(FALSE, None)


\* The text ends with LIMIT n
EndsWithLimit(sql, n) == Len(sql) >= 2 /\ SubSeq(sql, Len(sql) - 1, Len(sql)) = <<Kw("LIMIT"), Num(n)>>

\* C26: a limit of the intent is never silently dropped: for an intent
\* with a limit, generate_sql returns either no SQL or a text that ends
\* with LIMIT n, n the positive limit supplied; a limit of 0 or less gives
\* no SQL.
C26_LimitNeverDropped ==
    (gen_pc = "returned" /\ intent.limit # None) =>
        /\ gen_sql # NoSQL => (intent.limit[1] > 0 /\ EndsWithLimit(gen_sql, intent.limit[1]))
        /\ intent.limit[1] <= 0 => gen_sql = NoSQL


\* The strings among the filter values: scalars and list elements
FilterStrings(filters) ==
    {filters[i][2].s : i \in {j \in DOMAIN filters : filters[j][2].k = "str"}}
    \cup UNION {{filters[i][2].items[m].s :
                    m \in {n \in DOMAIN filters[i][2].items : filters[i][2].items[n].k = "str"}} :
                 i \in {j \in DOMAIN filters : filters[j][2].k = "list"}}

\* C27: every string value of a filter, a scalar or an element of a list
\* (also of a list that mixes strings and numbers), is written by
\* generate_sql as a single-quoted literal with every single quote in it
\* doubled, and no filter text is written outside a literal.
C27_StringValuesQuoted ==
    (gen_pc = "returned" /\ gen_sql # NoSQL) =>
        /\ \A s \in FilterStrings(intent.filters) : Lit(EscapeQuotes(s)) \in Range(gen_sql)
        /\ \A i \in DOMAIN gen_sql : gen_sql[i].k # "raw"


\* C28: every Correction that correct_query returns, whatever the category
\* of the error, has a corrected_sql other than its original_sql (and the
\* original_sql is the text passed in), so that a retry never runs the text
\* that just failed.
C28_CorrectionChangesSql ==
    (cq_pc = "done" /\ cq_correction # None) =>
        /\ cq_correction[1].original_sql = cq_sql_query
        /\ cq_correction[1].corrected_sql # cq_sql_query


\* This step is a check_rate_limit call that was rejected
StepRejected == rl_checks' = rl_checks + 1 /\ rl_last'.made /\ ~rl_last'.allowed

\* C29: a rejected check_rate_limit call records no event: the store after
\* it is the store before it without events it pruned, every event younger
\* than the window is kept, and so the store holds admitted events only and
\* rejected calls never move the time of the identity's next admission.
C29_RejectedCallRecordsNothing ==
    /\ [][StepRejected =>
              /\ calls' = SelectSeq(calls, LAMBDA e : e \in Range(calls'))
              /\ \A i \in DOMAIN calls : clock - calls[i][2] < Window => calls[i] \in Range(calls')
              /\ <<rl_last'.uid, clock>> \in Range(calls') => <<rl_last'.uid, clock>> \in Range(calls)
              /\ rl_admitted' = rl_admitted]_vars
    /\ [](Range(calls) \subseteq Range(rl_admitted))

\* A call was rejected while the store held one event fewer than were
\* admitted (an expired event had been pruned)
C29_Witness ==
    /\ rl_last.made /\ ~rl_last.allowed
    /\ Len(calls) = max_calls
    /\ Len(rl_admitted) > Len(calls)
    /\ rl_last.before = rl_admitted

=============================================================================
